---- MODULE Spec2Model ----
(***************************************************************************)
(* The code execution sandbox of excel-analyst-agent:                      *)
(* src/app_agents/tools/python_tool.py (CodeValidator, PythonSandboxTool). *)
(*                                                                         *)
(* An identifier is a sequence of tokens, "_" being one token, so that     *)
(* startswith('__') and endswith('__') are computed and not assumed.       *)
(* A dotted module name is the sequence of its components.                 *)
(* A syntax-tree node is [kind, id, mod, kids]; a source text is the       *)
(* sequence of its top-level fragments, a fragment being a statement node  *)
(* or a fragment that does not parse.                                      *)
(***************************************************************************)
EXTENDS Integers, Sequences, FiniteSets, TLC

\* ------------------------------------------------------------------ bounds
\* longest run of plain statements in a submitted program
MaxStmts == 2
\* nesting depth of the generated expressions
MaxDepth == 2
\* number of execute calls made on the one process
MaxCalls == 2

\* ------------------------------------------------------------- identifiers
Id(s) == <<s>>

Dunder(s) == <<"_", "_", s, "_", "_">>

\* str.startswith('__')
StartsWithDunder(attr) == Len(attr) >= 2 /\ attr[1] = "_" /\ attr[2] = "_"

\* str.endswith('__')
EndsWithDunder(attr) == Len(attr) >= 2 /\ attr[Len(attr)] = "_" /\ attr[Len(attr) - 1] = "_"

\* str.split('.')[0] of a dotted name ('' splits to [''])
TopLevel(mod) == IF mod = <<>> THEN "" ELSE Head(mod)

\* ------------------------------------------------------------ syntax trees
Node(kind, id, mod, kids) == [kind |-> kind, id |-> id, mod |-> mod, kids |-> kids]

Name(id) == Node("Name", id, <<>>, <<>>)

Constant(text) == Node("Constant", Id(text), <<>>, <<>>)

Attribute(value, attr) == Node("Attribute", attr, <<>>, <<value>>)

Call(func, args) == Node("Call", <<>>, <<>>, <<func>> \o args)

Subscript(value, index) == Node("Subscript", <<>>, <<>>, <<value, index>>)

ListComp(elt, iter) == Node("ListComp", <<>>, <<>>, <<elt, iter>>)

Alias(mod) == Node("alias", <<>>, mod, <<>>)

Import(mods) == Node("Import", <<>>, <<>>, [i \in 1..Len(mods) |-> Alias(mods[i])])

\* import mod as asname: the alias carries the name it is bound to
ImportAs(mod, asname) == Node("Import", <<>>, <<>>, <<Node("alias", Id(asname), mod, <<>>)>>)

ImportFrom(mod, what) == Node("ImportFrom", <<>>, mod, <<Alias(<<what>>)>>)

Expr(e) == Node("Expr", <<>>, <<>>, <<e>>)

Assign(target, value) == Node("Assign", <<>>, <<>>, <<Name(Id(target)), value>>)

Raise(e) == Node("Raise", <<>>, <<>>, <<e>>)

Return(e) == Node("Return", <<>>, <<>>, <<e>>)

FunctionDef(name, body) == Node("FunctionDef", Id(name), <<>>, body)

While(test, body) == Node("While", <<>>, <<>>, <<test>> \o body)

Pass == Node("Pass", <<>>, <<>>, <<>>)

\* a fragment of source text that is not valid syntax, e.g. an unclosed '('
Malformed == Node("<malformed>", <<>>, <<>>, <<>>)

\* an expression around e nested so deep (an attribute chain of some 330 links and
\* more) that ast.parse builds the tree but a NodeVisitor's recursion over it exceeds
\* the interpreter's recursion limit
DeepChain(e) == Node("<deep chain>", <<>>, <<>>, <<e>>)

\* a fragment nested so deep that ast.parse itself raises RecursionError
TooDeep == Node("<too deep>", <<>>, <<>>, <<>>)

Module(body) == Node("Module", <<>>, <<>>, body)

\* ---------------------------------------------------------- CodeValidator
BLOCKED_NAMES ==
    { Id("eval"), Id("exec"), Id("compile"),
      Id("open"), Id("file"), Id("input"), <<"raw", "_", "input">>,
      Id("execfile"), Id("reload"), Id("breakpoint"),
      Id("exit"), Id("quit"), Id("help") }

BLOCKED_MODULES ==
    { "os", "sys", "subprocess", "socket", "urllib",
      "requests", "http", "ftplib", "telnetlib",
      "pickle", "shelve", "marshal", "importlib" }

ALLOWED_DUNDERS == { Dunder("init"), Dunder("str"), Dunder("repr") }

\* one message: a fixed text (rule) about an identifier or a module name
Msg(rule, id, mod) == [rule |-> rule, id |-> id, mod |-> mod, n |-> 0]

RECURSIVE visit(_)
RECURSIVE generic_visit(_, _)

\* generic_visit as it would be if only the first child were visited
generic_visit_first(kids, i) ==
    IF i > 1 \/ i > Len(kids) THEN <<>> ELSE visit(kids[i])

\* NodeVisitor.generic_visit: visit every child, in field order
generic_visit(kids, i) ==
    IF i > Len(kids) THEN <<>> ELSE visit(kids[i]) \o generic_visit(kids, i + 1)

RECURSIVE import_errors_first(_, _)
\* the loop of visit_Import as it would be if it stopped at the first blocked alias
import_errors_first(names, i) ==
    IF i > Len(names) THEN <<>>
    ELSE IF TopLevel(names[i].mod) \in BLOCKED_MODULES
         THEN <<Msg("Import of ... is not allowed", <<>>, names[i].mod)>>
         ELSE import_errors_first(names, i + 1)

RECURSIVE import_errors(_, _)
\* the loop of visit_Import over node.names
import_errors(names, i) ==
    IF i > Len(names) THEN <<>>
    ELSE (IF TopLevel(names[i].mod) \in BLOCKED_MODULES
          THEN <<Msg("Import of ... is not allowed", <<>>, names[i].mod)>>
          ELSE <<>>) \o import_errors(names, i + 1)

RECURSIVE import_errors_whole_name(_, _)
import_errors_whole_name(names, i) ==
    IF i > Len(names) THEN <<>>
    ELSE (IF Len(names[i].mod) = 1 /\ names[i].mod[1] \in BLOCKED_MODULES
          THEN <<Msg("Import of ... is not allowed", <<>>, names[i].mod)>>
          ELSE <<>>) \o import_errors_whole_name(names, i + 1)

\* visit_Import as it would be if alias.name were looked up without split('.')[0]
visit_Import_whole_name(node) ==
    import_errors_whole_name(node.kids, 1) \o generic_visit(node.kids, 1)

visit_Import(node) == import_errors(node.kids, 1) \o generic_visit(node.kids, 1)

\* visit_ImportFrom as it would be without the test of node.module
visit_ImportFrom_unchecked(node) == generic_visit(node.kids, 1)

visit_ImportFrom(node) ==
    LET own == IF node.mod # <<>> /\ TopLevel(node.mod) \in BLOCKED_MODULES
               THEN <<Msg("Import from ... is not allowed", <<>>, node.mod)>>
               ELSE <<>>
    IN  own \o generic_visit(node.kids, 1)

visit_Name(node) ==
    LET own == IF node.id \in BLOCKED_NAMES
               THEN <<Msg("Use of ... is not allowed", node.id, <<>>)>>
               ELSE <<>>
    IN  own \o generic_visit(node.kids, 1)

\* visit_Attribute as it would be without its call of generic_visit
visit_Attribute_shallow(node) ==
    IF StartsWithDunder(node.id) /\ EndsWithDunder(node.id) /\ node.id \notin ALLOWED_DUNDERS
    THEN <<Msg("Access to ... is not allowed", node.id, <<>>)>>
    ELSE <<>>

visit_Attribute(node) ==
    LET own == IF StartsWithDunder(node.id) /\ EndsWithDunder(node.id)
                  /\ node.id \notin ALLOWED_DUNDERS
               THEN <<Msg("Access to ... is not allowed", node.id, <<>>)>>
               ELSE <<>>
    IN  own \o generic_visit(node.kids, 1)

\* NodeVisitor.visit: dispatch on the node's class; validator.errors in order
visit(node) ==
    CASE node.kind = "Import"     -> visit_Import(node)
      [] node.kind = "ImportFrom" -> visit_ImportFrom(node)
      [] node.kind = "Name"       -> visit_Name(node)
      [] node.kind = "Attribute"  -> visit_Attribute(node)
      [] OTHER                    -> generic_visit(node.kids, 1)

\* every node of a tree, the root included
RECURSIVE Nodes(_)
Nodes(node) == {node} \cup UNION { Nodes(node.kids[i]) : i \in 1..Len(node.kids) }

\* ------------------------------------------------------------- ast.parse
\* ast.parse(code): SyntaxError when a fragment does not parse, else the Module
ParseFails(source) == \E i \in 1..Len(source) : source[i] = Malformed

\* ast.parse(code) raises RecursionError, which is no SyntaxError
ParseOverflows(source) == ~ParseFails(source) /\ \E i \in 1..Len(source) : source[i] = TooDeep

Parse(source) == Module(source)

\* validator.visit(tree) raises RecursionError
VisitOverflows(t) == \E n \in Nodes(t) : n.kind = "<deep chain>"

\* compile(tree): the compiler, not the parser, rejects 'return' outside a function
CompileFails(tree) == \E i \in 1..Len(tree.kids) : tree.kids[i].kind = "Return"

\* ------------------------------------------------- _create_safe_globals
\* SafeBuiltins as it would be if the table also had 'open'
SafeBuiltins_with_open ==
    { Id("print"), Id("len"), Id("range"), Id("enumerate"), Id("zip"), Id("map"),
      Id("filter"), Id("sum"), Id("min"), Id("max"), Id("abs"), Id("round"),
      Id("sorted"), Id("list"), Id("dict"), Id("set"), Id("tuple"), Id("str"),
      Id("int"), Id("float"), Id("bool"), Id("isinstance"), Id("type"),
      Id("hasattr"), Id("getattr"), Id("setattr"), Id("True"), Id("False"),
      Id("None"), Dunder("import"),
      Id("Exception"), Id("ValueError"), Id("TypeError"), Id("KeyError"),
      Id("IndexError"), Id("AttributeError"), Id("RuntimeError"),
      Id("ImportError"), Id("ZeroDivisionError"),
      Id("locals"), Id("globals"), Id("dir"), Id("any"), Id("all"), Id("open") }

\* the keys of safe_builtins
SafeBuiltins ==
    { Id("print"), Id("len"), Id("range"), Id("enumerate"), Id("zip"), Id("map"),
      Id("filter"), Id("sum"), Id("min"), Id("max"), Id("abs"), Id("round"),
      Id("sorted"), Id("list"), Id("dict"), Id("set"), Id("tuple"), Id("str"),
      Id("int"), Id("float"), Id("bool"), Id("isinstance"), Id("type"),
      Id("hasattr"), Id("getattr"), Id("setattr"), Id("True"), Id("False"),
      Id("None"), Dunder("import"),
      Id("Exception"), Id("ValueError"), Id("TypeError"), Id("KeyError"),
      Id("IndexError"), Id("AttributeError"), Id("RuntimeError"),
      Id("ImportError"), Id("ZeroDivisionError"),
      Id("locals"), Id("globals"), Id("dir"), Id("any"), Id("all") }

AllowedModules ==
    { Id("pd"), Id("pandas"), Id("np"), Id("numpy"), Id("plt"), Id("matplotlib"),
      Id("sns"), Id("seaborn") }

\* a value bound in the namespace: its type, and the rows of a table
Value(type, rows) == [type |-> type, rows |-> rows]

\* file_path is "" for None
create_safe_globals(file_path) ==
    LET keys == {Dunder("builtins"), Dunder("name")} \cup AllowedModules
                \cup (IF file_path # "" THEN {<<"file", "_", "path">>} ELSE {})
    IN  [k \in keys |->
            IF k = Dunder("builtins") THEN Value("builtins", <<>>)
            ELSE IF k \in AllowedModules THEN Value("module", <<>>)
            ELSE Value("str", <<>>)]

\* a table on which .head(5) raises TypeError: 'int' object is not callable
Broken(v) == [v EXCEPT !.rows = <<[type |-> "not callable", v |-> "head"]>>]

\* the namespace a statement left with one more binding
Bind(ns, k, v) == [x \in DOMAIN ns \cup {k} |-> IF x = k THEN v ELSE ns[x]]

\* ----------------------------------------------------------- _safe_import
\* the module objects loaded when python_tool is imported
PreloadedHandles == {"pd", "np", "matplotlib", "sns"}

\* the dictionary 'allowed' of _safe_import
allowed ==
    [n \in {<<"pandas">>, <<"numpy">>, <<"matplotlib">>, <<"seaborn">>} |->
        CASE n = <<"pandas">> -> "pd"
          [] n = <<"numpy">> -> "np"
          [] n = <<"matplotlib">> -> "matplotlib"
          [] OTHER -> "sns"]

\* _safe_import as it would be without the branch for 'matplotlib.' names
safe_import_no_submodules(name) ==
    IF name \in DOMAIN allowed THEN allowed[name]
    ELSE IF TopLevel(name) \in BLOCKED_MODULES THEN "not allowed for security reasons"
    ELSE "Cannot import"

\* the pre-loaded handle that is returned, else the text of the ImportError raised
safe_import(name) ==
    IF name \in DOMAIN allowed THEN allowed[name]
    ELSE IF Len(name) >= 2 /\ name[1] = "matplotlib" THEN "matplotlib"
    ELSE IF TopLevel(name) \in BLOCKED_MODULES THEN "not allowed for security reasons"
    ELSE "Cannot import"

\* ------------------------------------------------ _make_json_safe_records
\* rows of the preview: safe_dict['df'].head(5)
HEAD_ROWS == 5

\* a cell of a table: the Python type of the value and what it holds
Cell(type, v) == [type |-> type, v |-> v]

NonFinite == {"nan", "inf", "-inf"}

\* the classes of numpy scalars among the cell types (isinstance(value, np.generic))
NpGeneric == {"np.float64", "np.float32", "np.int64", "np.bool_"}

\* value.item(): the native Python value of a numpy scalar
item(value) ==
    Cell(CASE value.type \in {"np.float64", "np.float32"} -> "float"
           [] value.type = "np.int64"                      -> "int"
           [] OTHER                                        -> "bool", value.v)

\* to_safe as it would be if the native value of a numpy scalar were returned unchecked
to_safe_item_only(value) ==
    IF value.type = "Timestamp" THEN Cell("str", "isoformat")
    ELSE IF value.type = "datetime" THEN Cell("str", "isoformat")
    ELSE IF value.type \in NpGeneric THEN item(value)
    ELSE IF value.type = "float" THEN
        IF value.v \in NonFinite THEN Cell("NoneType", "None") ELSE value
    ELSE value

\* to_safe(value)
to_safe(value) ==
    IF value.type = "Timestamp" THEN Cell("str", "isoformat")
    ELSE IF value.type = "datetime" THEN Cell("str", "isoformat")
    ELSE IF value.type \in NpGeneric THEN
        LET py == item(value)
        IN  IF py.type = "float" /\ py.v \in NonFinite THEN Cell("NoneType", "None") ELSE py
    ELSE IF value.type = "float" THEN
        IF value.v \in NonFinite THEN Cell("NoneType", "None") ELSE value
    ELSE value

\* df.head(5).to_dict('records'), then to_safe on every value of every record
make_json_safe_records(rows) ==
    LET n == IF Len(rows) < HEAD_ROWS THEN Len(rows) ELSE HEAD_ROWS
    IN  [i \in 1..n |-> to_safe(rows[i])]

\* ----------------------------------------------- the submitted programs
PrintStmt == Expr(Call(Name(Id("print")), <<Constant("hello")>>))

FigStmt == Expr(Call(Attribute(Name(Id("plt")), Id("figure")), <<>>))

\* a figure that cannot be rendered (savefig raises ValueError: image size too large)
BadFigStmt == Expr(Call(Attribute(Name(Id("plt")), Id("figure")), <<Constant("figsize=(1e6, 1e6)")>>))

\* np.log(0): a RuntimeWarning, written to sys.stderr
WarnStmt == Expr(Call(Attribute(Name(Id("np")), Id("log")), <<Constant("0")>>))

SampleRows ==
    << Cell("float", "1.5"), Cell("float", "nan"), Cell("np.float64", "inf"),
       Cell("Timestamp", "2024-01-01"), Cell("str", "a"), Cell("np.int64", "7") >>

\* a table of two rows, every cell finite
ShortRows == << Cell("np.float32", "2.5"), Cell("bool", "True") >>

\* a table whose cells hold a list, an interval of time and a calendar date
ObjectRows ==
    << Cell("list", "[1, 2]"), Cell("np.float32", "-inf"), Cell("float", "-inf"),
       Cell("Timedelta", "1 days"), Cell("date", "2024-01-01") >>

ShortTableExpr == Call(Attribute(Name(Id("pd")), Id("DataFrame")), <<Constant("short rows")>>)

ObjectTableExpr == Call(Attribute(Name(Id("pd")), Id("DataFrame")), <<Constant("object rows")>>)

AssignShort == Assign("df", ShortTableExpr)

AssignObjects == Assign("df", ObjectTableExpr)

\* result = <the table of two rows>
AssignResult == Assign("result", ShortTableExpr)

\* df = 3: the conventional name bound to something that is no table
AssignDfScalar == Assign("df", Constant("3"))

TableExpr == Call(Attribute(Name(Id("pd")), Id("DataFrame")), <<Constant("rows")>>)

AssignDf == Assign("df", TableExpr)

RaiseStmt == Raise(Call(Name(Id("ValueError")), <<Constant("bad column")>>))

\* raise Exception.mro()[1]('stop'): the class is BaseException
BaseExceptionExpr == Subscript(Call(Attribute(Name(Id("Exception")), Id("mro")), <<>>), Constant("1"))

RaiseBaseStmt == Raise(Call(BaseExceptionExpr, <<Constant("stop")>>))

\* the class TimeoutError, which no builtin of the namespace names, reached from
\* Exception: getattr(OSError, '__subclasses__')() of the OSError found in
\* getattr(Exception, '__subclasses__')(); no dunder Attribute node is involved
TimeoutErrorExpr ==
    Call(Name(Id("getattr")), <<Name(Id("Exception")), Constant("__subclasses__ ... TimeoutError")>>)

\* raise <TimeoutError>('bad column')
RaiseTimeoutStmt == Raise(Call(TimeoutErrorExpr, <<Constant("bad column")>>))

Try(body) == Node("Try", <<>>, <<>>, body)

\* try: raise ValueError('bad column')
\* except ValueError: raise
ReraiseStmt == Try(<<RaiseStmt>>)

\* while True: pass
LoopStmt == While(Constant("True"), <<Pass>>)

\* return 1, at module level
ReturnStmt == Return(Constant("1"))

ImportOs == Import(<< <<"os">> >>)

ImportJson == Import(<< <<"json">> >>)

ImportPandas == Import(<< <<"pandas">> >>)

\* __import__('a.b'): the interceptor called as the builtin it replaces
ImportCall(mod) == Expr(Call(Name(Dunder("import")), <<Node("Constant", <<>>, mod, <<>>)>>))

\* pd.leak = 1: an attribute set on the pandas module object
SetAttrStmt == Node("Assign", <<>>, <<>>, <<Attribute(Name(Id("pd")), Id("leak")), Constant("1")>>)

\* print(pd.leak)
ReadAttrStmt == Expr(Call(Name(Id("print")), <<Attribute(Name(Id("pd")), Id("leak"))>>))

\* plt = 3: a pre-loaded name rebound
RebindStmt == Assign("plt", Constant("3"))

\* df.head = 3: the table's method hidden by an instance attribute
BreakTableStmt == Node("Assign", <<>>, <<>>, <<Attribute(Name(Id("df")), Id("head")), Constant("3")>>)

\* print(df)
ReadVarStmt == Expr(Call(Name(Id("print")), <<Name(Id("df"))>>))

\* --------------------------------------------------- exec(byte_code, ns)
\* the attributes a module object has beyond the library's own
Attrs(hs) == {h.attr : h \in hs}

\* whether evaluating e takes an attribute of a name that is bound to no module
\* (AttributeError: 'int' object has no attribute ...)
HasNoAttr(e, ns) ==
    \E n \in Nodes(e) :
        /\ n.kind = "Attribute"
        /\ n.kids[1].kind = "Name"
        /\ n.kids[1].id \in AllowedModules
        /\ n.kids[1].id \in DOMAIN ns
        /\ ns[n.kids[1].id].type # "module"

\* whether evaluating e looks up a name that nothing binds (NameError)
HasUnbound(e, ns) ==
    \E n \in Nodes(e) : n.kind = "Name" /\ n.id \notin DOMAIN ns /\ n.id \notin SafeBuiltins

\* set: the attributes the statement sets on a pre-loaded module object
Effect(raise, text, out, err, fig, ns, loop) ==
    [raise |-> raise, text |-> text, out |-> out, err |-> err, fig |-> fig, ns |-> ns,
     loop |-> loop, set |-> {}]

Quiet(ns) == Effect("", "", <<>>, <<>>, "", ns, FALSE)

Raises(class, text, ns) == Effect(class, text, <<>>, <<>>, "", ns, FALSE)

RECURSIVE ExecImport(_, _, _)
RECURSIVE Exec(_, _, _)
\* the import statement: __import__ is _safe_import, called for each alias in turn;
\* the first component of the name is bound, or the name after 'as'
ExecImport(stmt, ns, i) ==
    IF i > Len(stmt.kids) THEN Quiet(ns)
    ELSE LET name  == stmt.kids[i].mod
             got   == safe_import(name)
             bound == IF stmt.kids[i].id # <<>> THEN stmt.kids[i].id ELSE Id(TopLevel(name))
         IN  IF got \in PreloadedHandles
             THEN ExecImport(stmt, Bind(ns, bound, Value("module", <<>>)), i + 1)
             ELSE Raises("Exception", got, ns)

\* from M import x: __import__(M, fromlist), then x is taken from what it returned;
\* for M = matplotlib.sub that is matplotlib itself, where only sub is to be found
ExecImportFrom(stmt, ns) ==
    LET got == safe_import(stmt.mod)
    IN  IF got \in PreloadedHandles /\ Len(stmt.mod) >= 2 /\ stmt.kids[1].mod[1] # stmt.mod[2]
        THEN Raises("Exception", "cannot import name", ns)
        ELSE IF got \in PreloadedHandles THEN Quiet(Bind(ns, Id(stmt.kids[1].mod[1]), Value("attribute", <<>>)))
        ELSE Raises("Exception", got, ns)

\* what one top-level statement does when the interpreter runs it in namespace ns,
\* attrs being the attributes set on the pre-loaded module objects
Exec(stmt, ns, attrs) ==
    CASE stmt.kind = "Import" -> ExecImport(stmt, ns, 1)
      [] stmt.kind = "ImportFrom" -> ExecImportFrom(stmt, ns)
      [] stmt.kind = "FunctionDef" -> Quiet(Bind(ns, stmt.id, Value("function", <<>>)))
      [] stmt.kind = "While" -> Effect("", "", <<>>, <<>>, "", ns, TRUE)
      [] stmt.kind = "Pass" -> Quiet(ns)
      [] stmt.kind = "Try" -> Exec(stmt.kids[1], ns, attrs)
      [] stmt.kind = "Raise" ->
            LET e     == stmt.kids[1]
                class == IF e.kind = "Call" THEN e.kids[1] ELSE e
                text  == IF e.kind = "Call" /\ Len(e.kids) >= 2 THEN e.kids[2].id[1] ELSE ""
            IN  IF HasUnbound(stmt, ns) THEN Raises("Exception", "NameError", ns)
                ELSE IF class = BaseExceptionExpr THEN Raises("BaseException", text, ns)
                ELSE IF class = TimeoutErrorExpr THEN Raises("TimeoutError", text, ns)
                ELSE Raises("Exception", text, ns)
      [] stmt.kind = "Assign" ->
            IF HasUnbound(stmt.kids[2], ns) THEN Raises("Exception", "NameError", ns)
            ELSE IF stmt.kids[1].kind = "Attribute"
                 THEN IF HasUnbound(stmt.kids[1], ns) THEN Raises("Exception", "NameError", ns)
                      ELSE IF HasNoAttr(stmt.kids[1], ns)
                           THEN Raises("Exception", "AttributeError", ns)
                      ELSE IF stmt.kids[1].kids[1].id \notin AllowedModules
                           THEN LET k == stmt.kids[1].kids[1].id
                                IN  IF ns[k].type = "DataFrame" /\ stmt.kids[1].id = Id("head")
                                    THEN Quiet(Bind(ns, k, Broken(ns[k])))
                                    ELSE Quiet(ns)
                           ELSE [Quiet(ns) EXCEPT !.set = {stmt.kids[1].id}]
            ELSE IF stmt.kids[2] = TableExpr
                 THEN Quiet(Bind(ns, stmt.kids[1].id, Value("DataFrame", SampleRows)))
            ELSE IF stmt.kids[2] = ShortTableExpr
                 THEN Quiet(Bind(ns, stmt.kids[1].id, Value("DataFrame", ShortRows)))
            ELSE IF stmt.kids[2] = ObjectTableExpr
                 THEN Quiet(Bind(ns, stmt.kids[1].id, Value("DataFrame", ObjectRows)))
                 ELSE Quiet(Bind(ns, stmt.kids[1].id, Value("object", <<>>)))
      [] stmt.kind = "Expr" ->
            IF HasUnbound(stmt, ns) THEN Raises("Exception", "NameError", ns)
            ELSE IF HasNoAttr(stmt, ns) THEN Raises("Exception", "AttributeError", ns)
            ELSE IF stmt.kids[1].kind = "Call" /\ stmt.kids[1].kids[1] = Name(Dunder("import"))
                 THEN LET got == safe_import(stmt.kids[1].kids[2].mod)
                      IN  IF got \in PreloadedHandles THEN Quiet(ns)
                          ELSE Raises("Exception", got, ns)
            ELSE IF stmt = ReadAttrStmt
                 THEN IF Id("leak") \in attrs
                      THEN Effect("", "", <<"1">>, <<>>, "", ns, FALSE)
                      ELSE Raises("Exception", "AttributeError", ns)
            ELSE IF stmt = ReadVarStmt THEN Effect("", "", <<"table">>, <<>>, "", ns, FALSE)
            ELSE IF stmt = PrintStmt THEN Effect("", "", <<"hello">>, <<>>, "", ns, FALSE)
            ELSE IF stmt = WarnStmt THEN Effect("", "", <<>>, <<"RuntimeWarning">>, "", ns, FALSE)
            ELSE IF stmt = FigStmt THEN Effect("", "", <<>>, <<>>, "good", ns, FALSE)
            ELSE IF stmt = BadFigStmt THEN Effect("", "", <<>>, <<>>, "bad", ns, FALSE)
            ELSE Quiet(ns)
      [] OTHER -> Quiet(ns)

\* ------------------------------------------------------ sets of programs
RECURSIVE SeqsUpTo(_, _)
\* the sequences over S of length at most n
SeqsUpTo(S, n) ==
    IF n = 0 THEN {<<>>}
    ELSE LET T == SeqsUpTo(S, n - 1) IN T \cup {Append(t, x) : t \in T, x \in S}

PlainStmts == {PrintStmt, FigStmt, AssignDf}

LastStmts ==
    {RaiseStmt, RaiseBaseStmt, LoopStmt, BadFigStmt, ImportJson, ImportPandas,
     ImportOs, Malformed, ReturnStmt, TooDeep, Expr(DeepChain(Name(Id("x"))))}

\* programs that leave something behind, or look for what an earlier call left
IsolationPrograms ==
    { <<SetAttrStmt>>, <<ReadAttrStmt>>, <<SetAttrStmt, ReadAttrStmt>>, <<RebindStmt, FigStmt>>,
      <<ReadVarStmt>>, <<AssignDf, ReadVarStmt>> }

\* programs that bind the two conventional names, to tables and to other values
DiscoveryPrograms ==
    { <<AssignResult>>, <<AssignDf, AssignResult>>, <<AssignResult, AssignDf>>,
      <<AssignDfScalar, AssignResult>>, <<AssignDfScalar>>, <<AssignResult, BadFigStmt>> }

\* programs that leave tables of other sizes and other kinds of cells
TablePrograms ==
    { <<AssignShort>>, <<AssignObjects>>, <<PrintStmt, AssignObjects>>, <<AssignShort, BadFigStmt>>,
      <<AssignShort, BreakTableStmt>>, <<PrintStmt, AssignDf, BreakTableStmt>>,
      <<FigStmt, AssignShort, BreakTableStmt>> }

\* the module names asked of the import interceptor
ImportNames ==
    { <<"pandas">>, <<"numpy">>, <<"matplotlib">>, <<"seaborn">>, <<"pd">>,
      <<"matplotlib", "pyplot">>, <<"matplotlib", "os">>, <<"pandas", "io">>,
      <<"os">>, <<"os", "path">>, <<"importlib", "util">>, <<"json">>, <<"json", "os">>, <<>> }

\* programs of one import: by calling __import__, and by the import statements that
\* pass the validator
ImportPrograms ==
    { <<ImportCall(n)>> : n \in ImportNames }
    \cup { <<Import(<<n>>)>> : n \in {m \in ImportNames : m # <<>> /\ m[1] \notin BLOCKED_MODULES} }
    \cup { <<ImportFrom(<<>>, "os")>>, <<ImportFrom(<<"matplotlib", "pyplot">>, "figure")>>,
           <<ImportAs(<<"pandas">>, "z")>> }

\* the import statements that name module X: import X, import X.path, import X as z,
\* from X import path, from X.path import join
Spellings(X) ==
    { Import(<< <<X>> >>), Import(<< <<X, "path">> >>), ImportAs(<<X>>, "z"),
      ImportFrom(<<X>>, "path"), ImportFrom(<<X, "path">>, "join") }

\* programs of one import statement that names a blocked module
BlockedImportPrograms == { <<s>> : s \in Spellings("os") \cup Spellings("importlib") }

\* programs that end in an exception of another class, or in one raised again
RaisingPrograms ==
    { <<RaiseTimeoutStmt>>, <<WarnStmt, RaiseTimeoutStmt>>, <<ReraiseStmt>>, <<PrintStmt, ReraiseStmt>> }

\* programs that write to both streams, and that print two different texts
OutputPrograms ==
    { <<PrintStmt, WarnStmt>>, <<AssignDf, ReadVarStmt, PrintStmt>>,
      <<PrintStmt, WarnStmt, RaiseStmt>> }

\* programs that exercise execution: plain statements, then at most one last
\* statement; and two that write to standard error
RuntimePrograms ==
    { p \o t : p \in SeqsUpTo(PlainStmts, MaxStmts), t \in {<<>>} \cup {<<l>> : l \in LastStmts} }
    \cup { <<WarnStmt>>, <<WarnStmt, RaiseStmt>> }
    \cup OutputPrograms
    \cup IsolationPrograms
    \cup TablePrograms
    \cup ImportPrograms
    \cup BlockedImportPrograms
    \cup RaisingPrograms
    \cup DiscoveryPrograms

SampleIds == {Id("eval"), Id("open"), Id("x")}

SampleAttrs == {Dunder("class"), Dunder("init"), <<"_", "_">>, <<"_", "_", "x">>, Id("y")}

RECURSIVE ExprTrees(_)
\* names, attribute chains and call arguments nested d deep
ExprTrees(d) ==
    IF d = 0 THEN {Name(i) : i \in SampleIds}
    ELSE LET T == ExprTrees(d - 1)
         IN  T \cup {Attribute(e, a) : e \in T, a \in SampleAttrs}
               \cup {Call(Name(Id("print")), <<e>>) : e \in T}

ImportSamples ==
    { Import(<< <<"os">> >>), Import(<< <<"os", "path">> >>), Import(<< <<"json">>, <<"os">> >>),
      Import(<< <<"os">>, <<"sys">> >>),
      Import(<< <<"pandas">> >>), Import(<< <<"json">> >>), Import(<< <<"matplotlib", "pyplot">> >>),
      ImportFrom(<<"os">>, "system"), ImportFrom(<<"os", "path">>, "join"),
      ImportFrom(<<>>, "os"), ImportFrom(<<"pandas">>, "DataFrame"),
      FunctionDef("f", << Import(<< <<"subprocess">> >>) >>) }

\* statements that exercise the validator
ValidatorStmts ==
    ImportSamples
    \cup {Expr(e) : e \in ExprTrees(MaxDepth)}
    \cup {FunctionDef("f", <<Expr(e)>>) : e \in ExprTrees(MaxDepth)}
    \cup {Expr(ListComp(e, Name(Id("xs")))) : e \in ExprTrees(MaxDepth)}

DeepStmts == {Expr(DeepChain(Name(i))) : i \in SampleIds}

ValidatorPrograms ==
    {<<v>> : v \in ValidatorStmts \cup DeepStmts \cup {TooDeep}}
    \cup {<<v, w>> : v \in ValidatorStmts, w \in {Malformed, TooDeep} \cup DeepStmts}
    \cup {<<PrintStmt, v>> : v \in ValidatorStmts}

\* ------------------------------------------------------------------ state
VARIABLES
    pc,             \* where the caller's thread is in execute
    calls,          \* execute calls made so far
    code,           \* execute's argument code
    file_path,      \* execute's argument file_path ("" for None)
    result,         \* the result dictionary
    tree,           \* ast.parse's tree
    errors,         \* validator.errors
    byte_code,      \* whether compile has produced the code object
    safe_dict,      \* the namespace of this call (<<>> before it is built)
    stdout_capture, \* the StringIO standard output is redirected to
    stderr_capture, \* the StringIO standard error is redirected to
    future,         \* "none", "running" or "finished"
    future_exc,     \* the exception the worker stored in the future
    exc,            \* the exception in flight in the caller's thread
    wi,             \* the statement the worker is at
    spin,           \* the worker's progress inside a loop that never ends
    figs,           \* pyplot's open figures, process-wide, in creation order
    display,        \* pandas display options, process-wide
    handles,        \* attributes set on the pre-loaded module objects, process-wide:
                    \* records [attr, by], by the call that set the attribute last
    redir,          \* the worker's redirect_stdout/redirect_stderr: whether it is inside
                    \* the with block, and what it found in sys.stdout and sys.stderr
    timed_out,      \* history: future.result raised the timeout in this call
    ran,            \* history: statements of code the worker has started in this call
    hist            \* history: how often this call has called compile and executor.submit

\* two execute calls made at the same time from two threads of the process, on code
\* that writes to the standard streams
VARIABLES
    cpc,            \* where each caller's thread is: "idle", "wait" or "returned"
    ccode,          \* the code of each call
    cresult,        \* result['output'] of each call
    cout,           \* the stdout_capture of each call: the pieces written, in order
    cerr,           \* the stderr_capture of each call
    wpc,            \* where each call's worker thread is in _execute_code
    cwi,            \* the statement each worker is at
    old_out,        \* what each worker's redirect_stdout found in sys.stdout on entry
    old_err,        \* what each worker's redirect_stderr found in sys.stderr on entry
    sys_stdout,     \* sys.stdout, process-wide: "original" or the call whose buffer it is
    sys_stderr,     \* sys.stderr, process-wide
    console         \* what has been written to the original streams

\* ExcelOrchestratorAgent.analyze of src/agents: the loop over model completions
VARIABLES
    apc,            \* where analyze is: "idle", "while", "for" or "done"
    iteration,      \* the loop counter
    tool_calls,     \* the tool calls of the last completion that are still to be handled
    analysis,       \* the dictionary analyze returns
    ahist           \* history: completions that asked for tools, sandbox executions,
                    \* the result of the first one that succeeded, tool calls handled
                    \* after it, and whether an exception was raised

\* analyze of src/app_agents (orchestrator and excel_agent): the loop over the items
\* of a finished run
VARIABLES
    xpc,            \* where the extraction is: "idle", "for" or "done"
    new_items,      \* result.new_items
    xi,             \* the item the loop is at
    extracted_df,
    extracted_images,
    extracted       \* the dictionary analyze returns

avars == << apc, iteration, tool_calls, analysis, ahist >>

xvars == << xpc, new_items, xi, extracted_df, extracted_images, extracted >>

ovars == << avars, xvars >>

cvars ==
    << cpc, ccode, cresult, cout, cerr, wpc, cwi, old_out, old_err, sys_stdout,
       sys_stderr, console >>

evars ==
    << pc, calls, code, file_path, result, tree, errors, byte_code, safe_dict,
       stdout_capture, stderr_capture, future, future_exc, exc, wi, spin, figs,
       display, handles, redir, timed_out, ran, hist >>

\* the variables of the two calls at the same time, sys.stdout and sys.stderr apart
cothers == << cpc, ccode, cresult, cout, cerr, wpc, cwi, old_out, old_err, console >>

vars == << evars, cvars, ovars >>

\* the two threads that call execute
Callers == {"first", "second"}

\* self.timeout, as every caller of the repository constructs the tool
DEFAULT_TIMEOUT == 30

NoExc == [class |-> "", text |-> ""]

Exc(class, text) == [class |-> class, text |-> text]

NoTable == [none |-> TRUE, records |-> <<>>]

InitialResult ==
    [success |-> FALSE, output |-> <<>>, error |-> <<>>, dataframe |-> NoTable, images |-> <<>>]

FilePaths == {"", "data.csv"}

\* the dictionary analyze of src/agents returns; "None" stands for None
Analysis(success, output, dataframe, images, source, error) ==
    [success |-> success, output |-> output, dataframe |-> dataframe, images |-> images,
     code |-> source, error |-> error]

NoAnalysis == Analysis(FALSE, "", "", <<>>, "", "")

NoHistory ==
    [tooled |-> 0, executions |-> 0, first |-> NoAnalysis, later |-> 0, raised |-> FALSE]

\* a dataframe or a list of images as the extraction sees it: the position of the
\* tool output it was read from (0: the initial None or [])
NoProduct == [from |-> 0, empty |-> TRUE]

Init ==
    /\ pc = "idle"
    /\ calls = 0
    /\ code = <<>>
    /\ file_path = ""
    /\ result = InitialResult
    /\ tree = Module(<<>>)
    /\ errors = <<>>
    /\ byte_code = FALSE
    /\ safe_dict = <<>>
    /\ stdout_capture = <<>>
    /\ stderr_capture = <<>>
    /\ future = "none"
    /\ future_exc = NoExc
    /\ exc = NoExc
    /\ wi = 1
    /\ spin = FALSE
    /\ figs = <<>>
    /\ display = "default"
    /\ handles = {}
    /\ redir = [in |-> FALSE, out |-> "original", err |-> "original"]
    /\ timed_out = FALSE
    /\ ran = 0
    /\ hist = [compiled |-> 0, started |-> 0]
    /\ cpc = [t \in Callers |-> "idle"]
    /\ ccode = [t \in Callers |-> <<>>]
    /\ cresult = [t \in Callers |-> <<>>]
    /\ cout = [t \in Callers |-> <<>>]
    /\ cerr = [t \in Callers |-> <<>>]
    /\ wpc = [t \in Callers |-> "none"]
    /\ cwi = [t \in Callers |-> 1]
    /\ old_out = [t \in Callers |-> "original"]
    /\ old_err = [t \in Callers |-> "original"]
    /\ sys_stdout = "original"
    /\ sys_stderr = "original"
    /\ console = <<>>
    /\ apc = "idle"
    /\ iteration = 0
    /\ tool_calls = <<>>
    /\ analysis = NoAnalysis
    /\ ahist = NoHistory
    /\ xpc = "idle"
    /\ new_items = <<>>
    /\ xi = 1
    /\ extracted_df = NoProduct
    /\ extracted_images = NoProduct
    /\ extracted = [dataframe |-> NoProduct, images |-> NoProduct]

\* --------------------------------------------- PythonSandboxTool.execute
\* execute(code, file_path) is entered: the result dictionary of lines 253-259.
\* The figures an earlier call left open are no longer this call's own.
Start(P, F) ==
    /\ pc \in {"idle", "returned", "raised", "replied", "dumps_raised"}
    /\ calls < MaxCalls
    /\ \E c \in P, f \in F :
          /\ code' = c
          /\ file_path' = f
    /\ calls' = calls + 1
    /\ result' = InitialResult
    /\ tree' = Module(<<>>)
    /\ errors' = <<>>
    /\ byte_code' = FALSE
    /\ safe_dict' = <<>>
    /\ stdout_capture' = <<>>
    /\ stderr_capture' = <<>>
    /\ future' = "none"
    /\ future_exc' = NoExc
    /\ exc' = NoExc
    /\ wi' = 1
    /\ spin' = FALSE
    /\ timed_out' = FALSE
    /\ ran' = 0
    /\ hist' = [compiled |-> 0, started |-> 0]
    /\ figs' = [i \in 1..Len(figs) |-> [figs[i] EXCEPT !.own = FALSE]]
    /\ pc' = "parse"
    /\ UNCHANGED display
    /\ UNCHANGED handles
    /\ UNCHANGED cvars
    /\ UNCHANGED redir
    /\ UNCHANGED ovars

\* ParseStep as it would be if pd.set_option ran before the source is parsed
ParseStep_configures_first ==
    /\ pc = "parse"
    /\ display' = "wide"
    /\ IF ParseFails(code)
       THEN /\ result' = [result EXCEPT !.error = <<Msg("Syntax error: ...", <<>>, <<>>)>>]
            /\ pc' = "returned"
            /\ UNCHANGED << tree, exc >>
       ELSE IF ParseOverflows(code)
       THEN /\ exc' = Exc("Exception", "maximum recursion depth exceeded")
            /\ pc' = "outer_except"
            /\ UNCHANGED << tree, result >>
       ELSE /\ tree' = Parse(code)
            /\ pc' = "validate"
            /\ UNCHANGED << result, exc >>
    /\ UNCHANGED << calls, code, file_path, errors, byte_code, safe_dict, stdout_capture,
                    stderr_capture, future, future_exc, wi, spin, figs, timed_out, ran >>
    /\ UNCHANGED handles
    /\ UNCHANGED cvars
    /\ UNCHANGED redir
    /\ UNCHANGED hist
    /\ UNCHANGED ovars

\* ParseStep as it would be without the return of line 268
ParseStep_no_return ==
    /\ pc = "parse"
    /\ IF ParseFails(code)
       THEN /\ result' = [result EXCEPT !.error = <<Msg("Syntax error: ...", <<>>, <<>>)>>]
            /\ tree' = Parse(code)
            /\ pc' = "validate"
            /\ UNCHANGED exc
       ELSE IF ParseOverflows(code)
       THEN /\ exc' = Exc("Exception", "maximum recursion depth exceeded")
            /\ pc' = "outer_except"
            /\ UNCHANGED << tree, result >>
       ELSE /\ tree' = Parse(code)
            /\ pc' = "validate"
            /\ UNCHANGED << result, exc >>
    /\ UNCHANGED << calls, code, file_path, errors, byte_code, safe_dict, stdout_capture,
                    stderr_capture, future, future_exc, wi, spin, figs, display,
                    timed_out, ran >>
    /\ UNCHANGED handles
    /\ UNCHANGED cvars
    /\ UNCHANGED redir
    /\ UNCHANGED hist
    /\ UNCHANGED ovars

\* tree = ast.parse(code); a SyntaxError returns at once, any other exception is
\* outside the inner try
ParseStep ==
    /\ pc = "parse"
    /\ IF ParseFails(code)
       THEN /\ result' = [result EXCEPT !.error = <<Msg("Syntax error: ...", <<>>, <<>>)>>]
            /\ pc' = "returned"
            /\ UNCHANGED << tree, exc >>
       ELSE IF ParseOverflows(code)
       THEN /\ exc' = Exc("Exception", "maximum recursion depth exceeded")
            /\ pc' = "outer_except"
            /\ UNCHANGED << tree, result >>
       ELSE /\ tree' = Parse(code)
            /\ pc' = "validate"
            /\ UNCHANGED << result, exc >>
    /\ UNCHANGED << calls, code, file_path, errors, byte_code, safe_dict, stdout_capture,
                    stderr_capture, future, future_exc, wi, spin, figs, display,
                    timed_out, ran >>
    /\ UNCHANGED handles
    /\ UNCHANGED cvars
    /\ UNCHANGED redir
    /\ UNCHANGED hist
    /\ UNCHANGED ovars

\* ValidateStep as it would be without the return of line 277
ValidateStep_no_return ==
    /\ pc = "validate"
    /\ IF VisitOverflows(tree)
       THEN /\ exc' = Exc("Exception", "maximum recursion depth exceeded")
            /\ pc' = "outer_except"
            /\ UNCHANGED << errors, result >>
       ELSE /\ errors' = visit(tree)
            /\ UNCHANGED exc
            /\ pc' = "configure"
            /\ IF errors' # <<>>
               THEN result' = [result EXCEPT
                                 !.error = <<Msg("Security validation failed:", <<>>, <<>>)>>
                                           \o errors']
               ELSE UNCHANGED result
    /\ UNCHANGED << calls, code, file_path, tree, byte_code, safe_dict, stdout_capture,
                    stderr_capture, future, future_exc, wi, spin, figs, display,
                    timed_out, ran >>
    /\ UNCHANGED handles
    /\ UNCHANGED cvars
    /\ UNCHANGED redir
    /\ UNCHANGED hist
    /\ UNCHANGED ovars

\* validator.visit(tree); a non-empty validator.errors returns at once; what the
\* walk raises is outside the inner try
ValidateStep ==
    /\ pc = "validate"
    /\ IF VisitOverflows(tree)
       THEN /\ exc' = Exc("Exception", "maximum recursion depth exceeded")
            /\ pc' = "outer_except"
            /\ UNCHANGED << errors, result >>
       ELSE /\ errors' = visit(tree)
            /\ UNCHANGED exc
            /\ IF errors' # <<>>
               THEN /\ result' = [result EXCEPT
                                    !.error = <<Msg("Security validation failed:", <<>>, <<>>)>>
                                              \o errors']
                    /\ pc' = "returned"
               ELSE /\ pc' = "configure"
                    /\ UNCHANGED result
    /\ UNCHANGED << calls, code, file_path, tree, byte_code, safe_dict, stdout_capture,
                    stderr_capture, future, future_exc, wi, spin, figs, display,
                    timed_out, ran >>
    /\ UNCHANGED handles
    /\ UNCHANGED cvars
    /\ UNCHANGED redir
    /\ UNCHANGED hist
    /\ UNCHANGED ovars

\* pd.set_option(...): process-wide, and never set back
ConfigureStep ==
    /\ pc = "configure"
    /\ display' = "wide"
    /\ pc' = "compile"
    /\ UNCHANGED << calls, code, file_path, result, tree, errors, byte_code, safe_dict,
                    stdout_capture, stderr_capture, future, future_exc, exc, wi, spin,
                    figs, timed_out, ran >>
    /\ UNCHANGED handles
    /\ UNCHANGED cvars
    /\ UNCHANGED redir
    /\ UNCHANGED hist
    /\ UNCHANGED ovars

\* byte_code = compile(tree, ...); what compile raises is outside the inner try
CompileStep ==
    /\ pc = "compile"
    /\ IF CompileFails(tree)
       THEN /\ exc' = Exc("Exception", "'return' outside function")
            /\ pc' = "outer_except"
            /\ UNCHANGED byte_code
       ELSE /\ byte_code' = TRUE
            /\ pc' = "globals"
            /\ UNCHANGED exc
    /\ UNCHANGED << calls, code, file_path, result, tree, errors, safe_dict, stdout_capture,
                    stderr_capture, future, future_exc, wi, spin, figs, display,
                    timed_out, ran >>
    /\ UNCHANGED handles
    /\ UNCHANGED cvars
    /\ UNCHANGED redir
    /\ hist' = [hist EXCEPT !.compiled = @ + 1]
    /\ UNCHANGED ovars

\* safe_dict = self._create_safe_globals(file_path); the two StringIO buffers
GlobalsStep ==
    /\ pc = "globals"
    /\ safe_dict' = create_safe_globals(file_path)
    /\ stdout_capture' = <<>>
    /\ stderr_capture' = <<>>
    /\ pc' = "submit"
    /\ UNCHANGED << calls, code, file_path, result, tree, errors, byte_code, future,
                    future_exc, exc, wi, spin, figs, display, timed_out, ran >>
    /\ UNCHANGED handles
    /\ UNCHANGED cvars
    /\ UNCHANGED redir
    /\ UNCHANGED hist
    /\ UNCHANGED ovars

\* executor.submit(self._execute_code, ...): the worker thread starts on the code
SubmitStep ==
    /\ pc = "submit"
    /\ future' = "running"
    /\ pc' = "wait"
    /\ UNCHANGED << calls, code, file_path, result, tree, errors, byte_code, safe_dict,
                    stdout_capture, stderr_capture, future_exc, exc, wi, spin, figs,
                    display, timed_out, ran >>
    /\ UNCHANGED handles
    /\ UNCHANGED cvars
    /\ UNCHANGED redir
    /\ hist' = [hist EXCEPT !.started = @ + 1]
    /\ UNCHANGED ovars

\* future.result(timeout=self.timeout) finds the future finished: its exception, if
\* it holds one, is raised in the caller
WaitDone ==
    /\ pc = "wait"
    /\ future = "finished"
    /\ exc' = future_exc
    /\ pc' = "shutdown"
    /\ UNCHANGED << calls, code, file_path, result, tree, errors, byte_code, safe_dict,
                    stdout_capture, stderr_capture, future, future_exc, wi, spin, figs,
                    display, timed_out, ran >>
    /\ UNCHANGED handles
    /\ UNCHANGED cvars
    /\ UNCHANGED redir
    /\ UNCHANGED hist
    /\ UNCHANGED ovars

\* self.timeout seconds pass with the future unfinished: future.result raises
\* concurrent.futures.TimeoutError
WaitTimeout ==
    /\ pc = "wait"
    /\ future # "finished"
    /\ exc' = Exc("TimeoutError", "")
    /\ timed_out' = TRUE
    /\ pc' = "shutdown"
    /\ UNCHANGED << calls, code, file_path, result, tree, errors, byte_code, safe_dict,
                    stdout_capture, stderr_capture, future, future_exc, wi, spin, figs,
                    display, ran >>
    /\ UNCHANGED handles
    /\ UNCHANGED cvars
    /\ UNCHANGED redir
    /\ UNCHANGED hist
    /\ UNCHANGED ovars

\* leaving the with block, normally or by an exception: ThreadPoolExecutor.__exit__
\* is shutdown(wait=True), which joins the worker thread
ShutdownStep ==
    /\ pc = "shutdown"
    /\ future = "finished"
    /\ pc' = IF exc = NoExc THEN "extract" ELSE "except"
    /\ UNCHANGED << calls, code, file_path, result, tree, errors, byte_code, safe_dict,
                    stdout_capture, stderr_capture, future, future_exc, exc, wi, spin,
                    figs, display, timed_out, ran >>
    /\ UNCHANGED handles
    /\ UNCHANGED cvars
    /\ UNCHANGED redir
    /\ UNCHANGED hist
    /\ UNCHANGED ovars

\* PreviewOf as it would be if 'result' were looked at before 'df'
PreviewOf_result_first(ns) ==
    IF Id("result") \in DOMAIN ns /\ ns[Id("result")].type = "DataFrame"
    THEN [none |-> FALSE, records |-> make_json_safe_records(ns[Id("result")].rows)]
    ELSE IF Id("df") \in DOMAIN ns /\ ns[Id("df")].type = "DataFrame"
    THEN [none |-> FALSE, records |-> make_json_safe_records(ns[Id("df")].rows)]
    ELSE NoTable

\* the table the preview is taken from: 'df' if it is a DataFrame, else 'result'
PreviewOf(ns) ==
    IF Id("df") \in DOMAIN ns /\ ns[Id("df")].type = "DataFrame"
    THEN [none |-> FALSE, records |-> make_json_safe_records(ns[Id("df")].rows)]
    ELSE IF Id("result") \in DOMAIN ns /\ ns[Id("result")].type = "DataFrame"
    THEN [none |-> FALSE, records |-> make_json_safe_records(ns[Id("result")].rows)]
    ELSE NoTable

\* safe_dict[name].head(5).to_dict('records') raises
ConversionThrows(ns) ==
    \E k \in {Id("df"), Id("result")} :
        /\ k \in DOMAIN ns
        /\ ns[k].type = "DataFrame"
        /\ (k = Id("result")) => ~(Id("df") \in DOMAIN ns /\ ns[Id("df")].type = "DataFrame")
        /\ ns[k].rows # <<>>
        /\ ns[k].rows[1].type = "not callable"

\* ExtractStep as it would be if the captured output were stored after the extraction
ExtractStep_output_late ==
    /\ pc = "extract"
    /\ IF ConversionThrows(safe_dict)
       THEN /\ UNCHANGED result
            /\ exc' = Exc("Exception", "object is not callable")
            /\ pc' = "except"
       ELSE /\ result' = [result EXCEPT !.dataframe = PreviewOf(safe_dict)]
            /\ pc' = "figures"
            /\ UNCHANGED exc
    /\ UNCHANGED << calls, code, file_path, tree, errors, byte_code, safe_dict,
                    stdout_capture, stderr_capture, future, future_exc, wi, spin,
                    figs, display, timed_out, ran >>
    /\ UNCHANGED handles
    /\ UNCHANGED cvars
    /\ UNCHANGED redir
    /\ UNCHANGED hist
    /\ UNCHANGED ovars

\* ExtractStep as it would be if result['success'] = True came before the figures
ExtractStep_success_early ==
    /\ pc = "extract"
    /\ result' = [result EXCEPT !.output = stdout_capture, !.dataframe = PreviewOf(safe_dict),
                                !.success = TRUE]
    /\ pc' = "figures"
    /\ UNCHANGED << calls, code, file_path, tree, errors, byte_code, safe_dict,
                    stdout_capture, stderr_capture, future, future_exc, exc, wi, spin,
                    figs, display, timed_out, ran >>
    /\ UNCHANGED handles
    /\ UNCHANGED cvars
    /\ UNCHANGED redir
    /\ UNCHANGED hist
    /\ UNCHANGED ovars

\* result['output'] = stdout_capture.getvalue(), then the dataframe preview; what the
\* conversion raises is handled by the inner try
ExtractStep ==
    /\ pc = "extract"
    /\ IF ConversionThrows(safe_dict)
       THEN /\ result' = [result EXCEPT !.output = stdout_capture]
            /\ exc' = Exc("Exception", "object is not callable")
            /\ pc' = "except"
       ELSE /\ result' = [result EXCEPT !.output = stdout_capture,
                                        !.dataframe = PreviewOf(safe_dict)]
            /\ pc' = "figures"
            /\ UNCHANGED exc
    /\ UNCHANGED << calls, code, file_path, tree, errors, byte_code, safe_dict,
                    stdout_capture, stderr_capture, future, future_exc, wi, spin,
                    figs, display, timed_out, ran >>
    /\ UNCHANGED handles
    /\ UNCHANGED cvars
    /\ UNCHANGED redir
    /\ UNCHANGED hist
    /\ UNCHANGED ovars

\* base64.b64encode(<the PNG of figure number num>)
Image(num, fig) == [encoding |-> "base64(png)", num |-> num, own |-> fig.own]

\* the first figure savefig fails on, Len(fs) + 1 when there is none
FirstBad(fs) ==
    IF \E i \in 1..Len(fs) : fs[i].bad
    THEN CHOOSE i \in 1..Len(fs) : fs[i].bad /\ \A j \in 1..(i - 1) : ~fs[j].bad
    ELSE Len(fs) + 1

\* for fig in [plt.figure(i) for i in plt.get_fignums()]: savefig, encode, append
SaveFiguresStep ==
    /\ pc = "figures"
    /\ LET k == FirstBad(figs)
       IN  /\ result' = [result EXCEPT
                           !.images = result.images \o [i \in 1..(k - 1) |-> Image(i, figs[i])]]
           /\ IF k <= Len(figs)
              THEN /\ exc' = Exc("Exception", "Image size is too large")
                   /\ pc' = "except"
              ELSE /\ pc' = "close"
                   /\ UNCHANGED exc
    /\ UNCHANGED << calls, code, file_path, tree, errors, byte_code, safe_dict,
                    stdout_capture, stderr_capture, future, future_exc, wi, spin, figs,
                    display, timed_out, ran >>
    /\ UNCHANGED handles
    /\ UNCHANGED cvars
    /\ UNCHANGED redir
    /\ UNCHANGED hist
    /\ UNCHANGED ovars

\* plt.close('all'); result['success'] = True
CloseStep ==
    /\ pc = "close"
    /\ figs' = <<>>
    /\ result' = [result EXCEPT !.success = TRUE]
    /\ pc' = "log"
    /\ UNCHANGED << calls, code, file_path, tree, errors, byte_code, safe_dict,
                    stdout_capture, stderr_capture, future, future_exc, exc, wi, spin,
                    display, timed_out, ran >>
    /\ UNCHANGED handles
    /\ UNCHANGED cvars
    /\ UNCHANGED redir
    /\ UNCHANGED hist
    /\ UNCHANGED ovars

TimeoutMsg ==
    [rule |-> "Execution timeout: Code took longer than ... seconds", id |-> <<>>,
     mod |-> <<>>, n |-> DEFAULT_TIMEOUT]

\* HandleTimeout as it would be if the captured output were stored on a timeout too
HandleTimeout_keeps_output ==
    /\ pc = "except"
    /\ exc.class = "TimeoutError"
    /\ result' = [result EXCEPT !.error = <<TimeoutMsg>>, !.output = stdout_capture]
    /\ exc' = NoExc
    /\ pc' = "log"
    /\ UNCHANGED << calls, code, file_path, tree, errors, byte_code, safe_dict,
                    stdout_capture, stderr_capture, future, future_exc, wi, spin, figs,
                    display, timed_out, ran >>
    /\ UNCHANGED handles
    /\ UNCHANGED cvars
    /\ UNCHANGED redir
    /\ UNCHANGED hist
    /\ UNCHANGED ovars

\* except FuturesTimeoutError
HandleTimeout ==
    /\ pc = "except"
    /\ exc.class = "TimeoutError"
    /\ result' = [result EXCEPT !.error = <<TimeoutMsg>>]
    /\ exc' = NoExc
    /\ pc' = "log"
    /\ UNCHANGED << calls, code, file_path, tree, errors, byte_code, safe_dict,
                    stdout_capture, stderr_capture, future, future_exc, wi, spin, figs,
                    display, timed_out, ran >>
    /\ UNCHANGED handles
    /\ UNCHANGED cvars
    /\ UNCHANGED redir
    /\ UNCHANGED hist
    /\ UNCHANGED ovars

\* HandleRuntime as it would be if it also stored what the buffer holds
HandleRuntime_keeps_output ==
    /\ pc = "except"
    /\ exc.class = "Exception"
    /\ result' = [result EXCEPT
                    !.output = stdout_capture,
                    !.error = <<Msg("Runtime error: ...", Id(exc.text), <<>>)>>
                              \o (IF stderr_capture # <<>>
                                  THEN <<Msg("stderr", stderr_capture, <<>>)>>
                                  ELSE <<>>)]
    /\ exc' = NoExc
    /\ pc' = "log"
    /\ UNCHANGED << calls, code, file_path, tree, errors, byte_code, safe_dict,
                    stdout_capture, stderr_capture, future, future_exc, wi, spin, figs,
                    display, timed_out, ran >>
    /\ UNCHANGED handles
    /\ UNCHANGED cvars
    /\ UNCHANGED redir
    /\ UNCHANGED hist
    /\ UNCHANGED ovars

\* HandleRuntime as it would be if a runtime error sent the call back to compile
HandleRuntime_retries ==
    /\ pc = "except"
    /\ exc.class = "Exception"
    /\ result' = [result EXCEPT
                    !.error = <<Msg("Runtime error: ...", Id(exc.text), <<>>)>>
                              \o (IF stderr_capture # <<>>
                                  THEN <<Msg("stderr", stderr_capture, <<>>)>>
                                  ELSE <<>>)]
    /\ exc' = NoExc
    /\ pc' = "compile"
    /\ UNCHANGED << calls, code, file_path, tree, errors, byte_code, safe_dict,
                    stdout_capture, stderr_capture, future, future_exc, wi, spin, figs,
                    display, timed_out, ran >>
    /\ UNCHANGED handles
    /\ UNCHANGED cvars
    /\ UNCHANGED redir
    /\ UNCHANGED hist
    /\ UNCHANGED ovars

\* except Exception as e, of the inner try: the message, then stderr if there is any
HandleRuntime ==
    /\ pc = "except"
    /\ exc.class = "Exception"
    /\ result' = [result EXCEPT
                    !.error = <<Msg("Runtime error: ...", Id(exc.text), <<>>)>>
                              \o (IF stderr_capture # <<>>
                                  THEN <<Msg("stderr", stderr_capture, <<>>)>>
                                  ELSE <<>>)]
    /\ exc' = NoExc
    /\ pc' = "log"
    /\ UNCHANGED << calls, code, file_path, tree, errors, byte_code, safe_dict,
                    stdout_capture, stderr_capture, future, future_exc, wi, spin, figs,
                    display, timed_out, ran >>
    /\ UNCHANGED handles
    /\ UNCHANGED cvars
    /\ UNCHANGED redir
    /\ UNCHANGED hist
    /\ UNCHANGED ovars

\* an exception that is no Exception passes both except clauses and leaves execute
Propagate ==
    /\ pc = "except"
    /\ exc.class = "BaseException"
    /\ pc' = "raised"
    /\ UNCHANGED << calls, code, file_path, result, tree, errors, byte_code, safe_dict,
                    stdout_capture, stderr_capture, future, future_exc, exc, wi, spin,
                    figs, display, timed_out, ran >>
    /\ UNCHANGED handles
    /\ UNCHANGED cvars
    /\ UNCHANGED redir
    /\ UNCHANGED hist
    /\ UNCHANGED ovars

\* except Exception as e, of the outer try
HandleSandbox ==
    /\ pc = "outer_except"
    /\ result' = [result EXCEPT !.error = <<Msg("Sandbox error: ...", Id(exc.text), <<>>)>>]
    /\ exc' = NoExc
    /\ pc' = "log"
    /\ UNCHANGED << calls, code, file_path, tree, errors, byte_code, safe_dict,
                    stdout_capture, stderr_capture, future, future_exc, wi, spin, figs,
                    display, timed_out, ran >>
    /\ UNCHANGED handles
    /\ UNCHANGED cvars
    /\ UNCHANGED redir
    /\ UNCHANGED hist
    /\ UNCHANGED ovars

\* logger.info(...); return result
ReturnStep ==
    /\ pc = "log"
    /\ pc' = "returned"
    /\ UNCHANGED << calls, code, file_path, result, tree, errors, byte_code, safe_dict,
                    stdout_capture, stderr_capture, future, future_exc, exc, wi, spin,
                    figs, display, timed_out, ran >>
    /\ UNCHANGED handles
    /\ UNCHANGED cvars
    /\ UNCHANGED redir
    /\ UNCHANGED hist
    /\ UNCHANGED ovars

\* ----------------------------------------- mcp_server.execute_python_code
\* the types json.dumps encodes: the scalars, and lists and tuples of them
JsonEncodable == {"str", "int", "float", "bool", "NoneType", "list"}

\* json.dumps(result, ensure_ascii=False): the JSON text, or the TypeError
\* 'Object of type ... is not JSON serializable' for a value of any other type
dumps(r) ==
    IF r.dataframe.none \/ \A i \in 1..Len(r.dataframe.records) :
                              r.dataframe.records[i].type \in JsonEncodable
    THEN "json"
    ELSE "TypeError"

\* return json.dumps(result, ensure_ascii=False), after execute has returned
execute_python_code ==
    /\ pc = "returned"
    /\ pc' = IF dumps(result) = "json" THEN "replied" ELSE "dumps_raised"
    /\ UNCHANGED << calls, code, file_path, result, tree, errors, byte_code, safe_dict,
                    stdout_capture, stderr_capture, future, future_exc, exc, wi, spin,
                    figs, display, timed_out, ran >>
    /\ UNCHANGED handles
    /\ UNCHANGED cvars
    /\ UNCHANGED redir
    /\ UNCHANGED hist
    /\ UNCHANGED ovars

\* ------------------------------------------------ the worker: _execute_code
\* with redirect_stdout(stdout_capture), redirect_stderr(stderr_capture): the worker
\* thread enters the block; sys.stdout and sys.stderr are the call's buffers from here
WorkerEnter ==
    /\ future = "running"
    /\ ~redir.in
    /\ redir' = [in |-> TRUE, out |-> sys_stdout, err |-> sys_stderr]
    /\ sys_stdout' = "stdout_capture"
    /\ sys_stderr' = "stderr_capture"
    /\ UNCHANGED << pc, calls, code, file_path, result, tree, errors, byte_code, safe_dict,
                    stdout_capture, stderr_capture, future, future_exc, exc, wi, spin, figs,
                    display, handles, timed_out, ran >>
    /\ UNCHANGED cothers
    /\ UNCHANGED hist
    /\ UNCHANGED ovars

\* exec(byte_code, safe_dict) under redirect_stdout/redirect_stderr, one top-level
\* statement at a time; an exception ends the work item and is stored in the future
WorkerStep ==
    /\ future = "running"
    /\ redir.in
    /\ wi <= Len(code)
    /\ ran' = wi
    /\ LET eff == Exec(code[wi], safe_dict, Attrs(handles))
       IN  IF eff.loop
           THEN /\ spin' = ~spin
                /\ UNCHANGED << safe_dict, stdout_capture, stderr_capture, future,
                                future_exc, wi, figs, handles, redir, sys_stdout,
                                sys_stderr >>
           ELSE IF eff.raise # ""
           THEN /\ future' = "finished"
                /\ future_exc' = Exc(eff.raise, eff.text)
                /\ sys_stderr' = redir.err
                /\ sys_stdout' = redir.out
                /\ redir' = [redir EXCEPT !.in = FALSE]
                /\ UNCHANGED << safe_dict, stdout_capture, stderr_capture, wi, spin, figs,
                                handles >>
           ELSE /\ safe_dict' = eff.ns
                /\ UNCHANGED << redir, sys_stdout, sys_stderr >>
                /\ handles' = {h \in handles : h.attr \notin eff.set}
                               \cup {[attr |-> a, by |-> calls] : a \in eff.set}
                /\ stdout_capture' = stdout_capture \o eff.out
                /\ stderr_capture' = stderr_capture \o eff.err
                /\ figs' = IF eff.fig = "" THEN figs
                           ELSE Append(figs, [bad |-> eff.fig = "bad", own |-> TRUE])
                /\ wi' = wi + 1
                /\ UNCHANGED << future, future_exc, spin >>
    /\ UNCHANGED << pc, calls, code, file_path, result, tree, errors, byte_code, exc,
                    display, timed_out >>
    /\ UNCHANGED cothers
    /\ UNCHANGED hist
    /\ UNCHANGED ovars

\* exec returned: the with block is left, sys.stderr and sys.stdout are set to what
\* was found on entry, and the future holds the result
WorkerDone ==
    /\ future = "running"
    /\ redir.in
    /\ wi > Len(code)
    /\ future' = "finished"
    /\ sys_stderr' = redir.err
    /\ sys_stdout' = redir.out
    /\ redir' = [redir EXCEPT !.in = FALSE]
    /\ UNCHANGED << pc, calls, code, file_path, result, tree, errors, byte_code, safe_dict,
                    stdout_capture, stderr_capture, future_exc, exc, wi, spin, figs,
                    display, timed_out, ran >>
    /\ UNCHANGED handles
    /\ UNCHANGED cothers
    /\ UNCHANGED hist
    /\ UNCHANGED ovars

\* ------------------------------------------- two calls at the same time
\* code that passes the parser, the validator and the compiler, creates no figure
\* and binds no table: print('hello') and np.log(0) in some order
StreamPrograms ==
    { <<PrintStmt>>, <<WarnStmt>>, <<PrintStmt, WarnStmt>>, <<WarnStmt, PrintStmt>>,
      <<PrintStmt, PrintStmt>> }

\* the pieces of text a call's statement writes, marked with the call that wrote them
Pieces(t, texts) == [i \in 1..Len(texts) |-> [by |-> t, text |-> texts[i]]]

\* the buffers after pieces were written to the stream object target
WrittenTo(bufs, target, pieces) ==
    IF target = "original" THEN bufs ELSE [bufs EXCEPT ![target] = @ \o pieces]

\* execute up to executor.submit (lines 253-307) on code that passes validation:
\* two new StringIO buffers, and a worker thread started on _execute_code
ExecuteBegin(t) ==
    /\ cpc[t] = "idle"
    /\ \E c \in StreamPrograms : ccode' = [ccode EXCEPT ![t] = c]
    /\ cout' = [cout EXCEPT ![t] = <<>>]
    /\ cerr' = [cerr EXCEPT ![t] = <<>>]
    /\ wpc' = [wpc EXCEPT ![t] = "enter_out"]
    /\ cwi' = [cwi EXCEPT ![t] = 1]
    /\ cpc' = [cpc EXCEPT ![t] = "wait"]
    /\ UNCHANGED << cresult, old_out, old_err, sys_stdout, sys_stderr, console >>
    /\ UNCHANGED evars
    /\ UNCHANGED ovars

\* redirect_stdout(stdout_capture).__enter__: sys.stdout is kept aside and replaced
EnterStdout(t) ==
    /\ wpc[t] = "enter_out"
    /\ old_out' = [old_out EXCEPT ![t] = sys_stdout]
    /\ sys_stdout' = t
    /\ wpc' = [wpc EXCEPT ![t] = "enter_err"]
    /\ UNCHANGED << cpc, ccode, cresult, cout, cerr, cwi, old_err, sys_stderr, console >>
    /\ UNCHANGED evars
    /\ UNCHANGED ovars

\* redirect_stderr(stderr_capture).__enter__
EnterStderr(t) ==
    /\ wpc[t] = "enter_err"
    /\ old_err' = [old_err EXCEPT ![t] = sys_stderr]
    /\ sys_stderr' = t
    /\ wpc' = [wpc EXCEPT ![t] = "exec"]
    /\ UNCHANGED << cpc, ccode, cresult, cout, cerr, cwi, old_out, sys_stdout, console >>
    /\ UNCHANGED evars
    /\ UNCHANGED ovars

\* exec(byte_code, safe_dict), one statement: print and the warning machinery write
\* to whatever sys.stdout and sys.stderr are when they are called
ExecStatement(t) ==
    /\ wpc[t] = "exec"
    /\ cwi[t] <= Len(ccode[t])
    /\ LET eff == Exec(ccode[t][cwi[t]], create_safe_globals("data.csv"), {})
           out == Pieces(t, eff.out)
           err == Pieces(t, eff.err)
       IN  /\ cout' = WrittenTo(cout, sys_stdout, out)
           /\ cerr' = WrittenTo(cerr, sys_stderr, err)
           /\ console' = console \o (IF sys_stdout = "original" THEN out ELSE <<>>)
                                 \o (IF sys_stderr = "original" THEN err ELSE <<>>)
    /\ cwi' = [cwi EXCEPT ![t] = @ + 1]
    /\ UNCHANGED << cpc, ccode, cresult, wpc, old_out, old_err, sys_stdout, sys_stderr >>
    /\ UNCHANGED evars
    /\ UNCHANGED ovars

\* redirect_stderr.__exit__: sys.stderr is set to what was kept aside on entry
ExitStderr(t) ==
    /\ wpc[t] = "exec"
    /\ cwi[t] > Len(ccode[t])
    /\ sys_stderr' = old_err[t]
    /\ wpc' = [wpc EXCEPT ![t] = "exit_out"]
    /\ UNCHANGED << cpc, ccode, cresult, cout, cerr, cwi, old_out, old_err, sys_stdout,
                    console >>
    /\ UNCHANGED evars
    /\ UNCHANGED ovars

\* redirect_stdout.__exit__, and the work item is done
ExitStdout(t) ==
    /\ wpc[t] = "exit_out"
    /\ sys_stdout' = old_out[t]
    /\ wpc' = [wpc EXCEPT ![t] = "done"]
    /\ UNCHANGED << cpc, ccode, cresult, cout, cerr, cwi, old_out, old_err, sys_stderr,
                    console >>
    /\ UNCHANGED evars
    /\ UNCHANGED ovars

\* future.result returns; result['output'] = stdout_capture.getvalue(); no table, no
\* figure; return result (lines 309-357)
ExecuteEnd(t) ==
    /\ cpc[t] = "wait"
    /\ wpc[t] = "done"
    /\ cresult' = [cresult EXCEPT ![t] = cout[t]]
    /\ cpc' = [cpc EXCEPT ![t] = "returned"]
    /\ UNCHANGED << ccode, cout, cerr, wpc, cwi, old_out, old_err, sys_stdout, sys_stderr,
                    console >>
    /\ UNCHANGED evars
    /\ UNCHANGED ovars

\* ------------------------------- src/agents: ExcelOrchestratorAgent.analyze
max_iterations == 5

\* bound: the tool calls one completion asks for
MaxToolCalls == 2

\* tool_call.function: the tool's name, and the arguments as the model wrote them
\* ("{" is a text json.loads does not accept)
ToolCall(name, arguments) == [name |-> name, arguments |-> arguments]

ToolCalls ==
    { ToolCall("execute_python_code", a) : a \in {"plot", "table", "{"} }
    \cup { ToolCall("search_web", "query") }

\* response_message.tool_calls of a completion; <<>> when the model answers in text
Responses == SeqsUpTo(ToolCalls, MaxToolCalls)

\* self.python_tool.execute(code, file_path): the results the sandbox can return for
\* a code, a failure or the success with the code's products
python_tool_execute(source) ==
    { [success |-> FALSE, output |-> "", dataframe |-> "None", images |-> <<>>],
      IF source = "plot"
      THEN [success |-> TRUE, output |-> "plotted", dataframe |-> "None", images |-> <<"png">>]
      ELSE [success |-> TRUE, output |-> "printed", dataframe |-> "rows", images |-> <<>>] }

\* the dictionary of the except clause, lines 245-253
OrchestratorError == Analysis(FALSE, "None", "None", <<>>, "None", "Orchestrator error: ...")

MaximumIterations ==
    Analysis(FALSE, "None", "None", <<>>, "None",
             "Maximum iterations reached. Please try rephrasing your query.")

\* analyze(user_query, file_path) is entered
analyze ==
    /\ apc = "idle"
    /\ apc' = "while"
    /\ iteration' = 0
    /\ tool_calls' = <<>>
    /\ analysis' = NoAnalysis
    /\ ahist' = NoHistory
    /\ UNCHANGED << evars, cvars, xvars >>

\* one turn of the while loop up to the test of response_message.tool_calls: the
\* completion raises, asks for tools, or answers in text
create ==
    /\ apc = "while"
    /\ iteration < max_iterations
    /\ iteration' = iteration + 1
    /\ \/ /\ apc' = "done"
          /\ analysis' = OrchestratorError
          /\ ahist' = [ahist EXCEPT !.raised = TRUE]
          /\ UNCHANGED tool_calls
       \/ \E r \in Responses :
             IF r # <<>>
             THEN /\ tool_calls' = r
                  /\ apc' = "for"
                  /\ ahist' = [ahist EXCEPT !.tooled = @ + 1]
                  /\ UNCHANGED analysis
             ELSE /\ apc' = "done"
                  /\ analysis' = Analysis(TRUE, "final response", "None", <<>>, "None", "None")
                  /\ UNCHANGED << tool_calls, ahist >>
    /\ UNCHANGED << evars, cvars, xvars >>

\* tool_call as it would be if a successful execution did not return
tool_call_no_return ==
    /\ apc = "for"
    /\ tool_calls # <<>>
    /\ LET tc == Head(tool_calls)
       IN  IF tc.arguments = "{"
           THEN /\ apc' = "done"
                /\ analysis' = OrchestratorError
                /\ ahist' = [ahist EXCEPT !.raised = TRUE]
                /\ UNCHANGED tool_calls
           ELSE IF tc.name = "execute_python_code"
           THEN \E r \in python_tool_execute(tc.arguments) :
                   LET got == Analysis(TRUE, r.output, r.dataframe, r.images,
                                       tc.arguments, "None")
                   IN  /\ ahist' = [ahist EXCEPT
                                      !.executions = @ + 1,
                                      !.later = IF ahist.first # NoAnalysis THEN @ + 1 ELSE @,
                                      !.first = IF @ = NoAnalysis /\ r.success THEN got ELSE @]
                       /\ analysis' = IF r.success THEN got ELSE analysis
                       /\ tool_calls' = Tail(tool_calls)
                       /\ UNCHANGED apc
           ELSE /\ tool_calls' = Tail(tool_calls)
                /\ ahist' = [ahist EXCEPT
                               !.later = IF ahist.first # NoAnalysis THEN @ + 1 ELSE @]
                /\ UNCHANGED << apc, analysis >>
    /\ UNCHANGED iteration
    /\ UNCHANGED << evars, cvars, xvars >>

\* the body of the for loop for one tool call: json.loads of the arguments, then the
\* sandbox or the web search; a successful execution returns its products
tool_call ==
    /\ apc = "for"
    /\ tool_calls # <<>>
    /\ LET tc == Head(tool_calls)
       IN  IF tc.arguments = "{"
           THEN /\ apc' = "done"
                /\ analysis' = OrchestratorError
                /\ ahist' = [ahist EXCEPT !.raised = TRUE]
                /\ UNCHANGED tool_calls
           ELSE IF tc.name = "execute_python_code"
           THEN \E r \in python_tool_execute(tc.arguments) :
                   LET got == Analysis(TRUE, r.output, r.dataframe, r.images,
                                       tc.arguments, "None")
                   IN  /\ ahist' = [ahist EXCEPT
                                      !.executions = @ + 1,
                                      !.later = IF ahist.first # NoAnalysis THEN @ + 1 ELSE @,
                                      !.first = IF @ = NoAnalysis /\ r.success THEN got ELSE @]
                       /\ IF r.success
                          THEN /\ analysis' = got
                               /\ apc' = "done"
                               /\ UNCHANGED tool_calls
                          ELSE /\ tool_calls' = Tail(tool_calls)
                               /\ UNCHANGED << apc, analysis >>
           ELSE /\ tool_calls' = Tail(tool_calls)
                /\ ahist' = [ahist EXCEPT
                               !.later = IF ahist.first # NoAnalysis THEN @ + 1 ELSE @]
                /\ UNCHANGED << apc, analysis >>
    /\ UNCHANGED iteration
    /\ UNCHANGED << evars, cvars, xvars >>

\* continue: every tool call of the completion was handled
continue_loop ==
    /\ apc = "for"
    /\ tool_calls = <<>>
    /\ apc' = "while"
    /\ UNCHANGED << iteration, tool_calls, analysis, ahist >>
    /\ UNCHANGED << evars, cvars, xvars >>

\* the while loop ends: lines 243-252
max_iterations_reached ==
    /\ apc = "while"
    /\ iteration >= max_iterations
    /\ apc' = "done"
    /\ analysis' = MaximumIterations
    /\ UNCHANGED << iteration, tool_calls, ahist >>
    /\ UNCHANGED << evars, cvars, xvars >>

\* ------ src/app_agents: analyze of ExcelOrchestratorAgent and ExcelAnalysisAgent
\* bound: the items of a run
MaxItems == 3

\* an item whose output is the JSON text of an execute_python_code result: whether
\* its "dataframe" is a list (not null), and whether its "images" list has an element
ToolOutput(dataframe, images) ==
    [kind |-> "tool output", dataframe |-> dataframe, images |-> images]

\* an item without an output attribute, and one whose output json.loads rejects
\* (the text a web search returns)
OtherItems ==
    { [kind |-> "message", dataframe |-> FALSE, images |-> FALSE],
      [kind |-> "text output", dataframe |-> FALSE, images |-> FALSE] }

Items == { ToolOutput(d, i) : d, i \in BOOLEAN } \cup OtherItems

\* Runner.run has returned: extracted_df = None, extracted_images = []
run_returned ==
    /\ xpc = "idle"
    /\ \E its \in SeqsUpTo(Items, MaxItems) : new_items' = its
    /\ xi' = 1
    /\ extracted_df' = NoProduct
    /\ extracted_images' = NoProduct
    /\ xpc' = "for"
    /\ UNCHANGED extracted
    /\ UNCHANGED << evars, cvars, avars >>

\* the body of the for loop over result.new_items, for one item
extract_item ==
    /\ xpc = "for"
    /\ xi <= Len(new_items)
    /\ LET it == new_items[xi]
       IN  IF it.kind = "tool output"
           THEN /\ extracted_df' = IF it.dataframe THEN [from |-> xi, empty |-> FALSE]
                                   ELSE extracted_df
                /\ extracted_images' = [from |-> xi, empty |-> ~it.images]
           ELSE UNCHANGED << extracted_df, extracted_images >>
    /\ xi' = xi + 1
    /\ UNCHANGED << xpc, new_items, extracted >>
    /\ UNCHANGED << evars, cvars, avars >>

\* the dictionary returned after the loop
return_extracted ==
    /\ xpc = "for"
    /\ xi > Len(new_items)
    /\ extracted' = [dataframe |-> extracted_df, images |-> extracted_images]
    /\ xpc' = "done"
    /\ UNCHANGED << new_items, xi, extracted_df, extracted_images >>
    /\ UNCHANGED << evars, cvars, avars >>

\* ---------------------------------------------------------- specifications
Caller ==
    \/ ParseStep
    \/ ValidateStep
    \/ ConfigureStep
    \/ CompileStep
    \/ GlobalsStep
    \/ SubmitStep
    \/ WaitDone
    \/ WaitTimeout
    \/ ShutdownStep
    \/ ExtractStep
    \/ SaveFiguresStep
    \/ CloseStep
    \/ HandleTimeout
    \/ HandleRuntime
    \/ Propagate
    \/ HandleSandbox
    \/ ReturnStep

Worker ==
    \/ WorkerEnter
    \/ WorkerStep
    \/ WorkerDone

Steps == Caller \/ Worker \/ execute_python_code

Execute == Start(RuntimePrograms, {"data.csv"})

ExecuteV == Start(ValidatorPrograms \cup RuntimePrograms, FilePaths)

Next == Execute \/ Steps

\* a sequence of execute calls on one process
Spec == Init /\ [][Next]_vars

\* one execute call, on the programs that exercise the validator as well
NextV == (calls = 0 /\ ExecuteV) \/ Steps

SpecV == Init /\ [][NextV]_vars

NextC ==
    \E t \in Callers :
        \/ ExecuteBegin(t)
        \/ EnterStdout(t)
        \/ EnterStderr(t)
        \/ ExecStatement(t)
        \/ ExitStderr(t)
        \/ ExitStdout(t)
        \/ ExecuteEnd(t)

\* two execute calls from two threads, their workers interleaved in every way
SpecC == Init /\ [][NextC]_vars

NextA ==
    \/ analyze
    \/ create
    \/ tool_call
    \/ continue_loop
    \/ max_iterations_reached

\* one run of analyze of src/agents
SpecA == Init /\ [][NextA]_vars

\* the thread that runs analyze is scheduled, and every call it makes returns
FairSpecA == SpecA /\ WF_vars(NextA)

NextX ==
    \/ run_returned
    \/ extract_item
    \/ return_extracted

\* one run of analyze of src/app_agents, from the return of Runner.run on
SpecX == Init /\ [][NextX]_vars

\* each thread that can take a step does take one, and time passes: the caller's
\* thread and the worker thread are both scheduled
FairSpec == Spec /\ WF_vars(Caller) /\ WF_vars(Worker)

\* ------------------------------------------------------------- properties
\* the result dictionary mentions message m
InError(m) == \E i \in 1..Len(result.error) : result.error[i] = m

\* ast.parse returns a tree and the validator's walk over it ends
Walked(source) ==
    ~ParseFails(source) /\ ~ParseOverflows(source) /\ ~VisitOverflows(Parse(source))

\* nothing of the submitted code has been compiled, given a namespace, handed to a
\* worker or run
NothingRun ==
    /\ ~byte_code
    /\ safe_dict = <<>>
    /\ future = "none"
    /\ ran = 0
    /\ stdout_capture = <<>>

\* C1: a call whose source does not parse, or whose validator report is not empty,
\* never compiles the tree, builds a namespace, submits a worker or runs a statement,
\* and never comes to the steps that do
ValidationPrecedesExecution ==
    ( /\ pc # "idle"
      /\ \/ ParseFails(code)
         \/ ParseOverflows(code)
         \/ VisitOverflows(Parse(code))
         \/ visit(Parse(code)) # <<>> )
    => /\ NothingRun
       /\ pc \in {"parse", "validate", "outer_except", "log", "returned", "replied"}

ValidationRejectedWitness ==
    /\ pc = "returned"
    /\ Walked(code)
    /\ errors # <<>>
    /\ Len(code) = 2

\* the messages owed: one for each import of a module whose name before
\* the first dot is blocked
OffendingImports(source) ==
    LET ns      == Nodes(Module(source))
        aliases == UNION { {n.kids[i] : i \in 1..Len(n.kids)} : n \in {m \in ns : m.kind = "Import"} }
    IN  { Msg("Import of ... is not allowed", <<>>, a.mod) :
            a \in {b \in aliases : b.mod # <<>> /\ b.mod[1] \in BLOCKED_MODULES} }
        \cup
        { Msg("Import from ... is not allowed", <<>>, n.mod) :
            n \in {m \in ns : m.kind = "ImportFrom" /\ m.mod # <<>> /\ m.mod[1] \in BLOCKED_MODULES} }

RejectedNaming(ms) ==
    /\ ~result.success
    /\ result.output = <<>>
    /\ result.dataframe = NoTable
    /\ result.images = <<>>
    /\ \A m \in ms : InError(m)

\* C2 as stated: whenever the source contains an import of a blocked module, the
\* result is a failure with no output, table or image whose error names each such
\* module as not allowed
BlockedImportAlwaysNamed ==
    (pc = "returned" /\ OffendingImports(code) # {}) => RejectedNaming(OffendingImports(code))

\* C2 as amended: the same, for a source that parses and that the validator walks to
\* the end
BlockedImportNamedWhenWalked ==
    (pc = "returned" /\ Walked(code) /\ OffendingImports(code) # {})
    => RejectedNaming(OffendingImports(code))

BlockedImportWitness ==
    /\ pc = "returned"
    /\ code = <<PrintStmt, Import(<< <<"os", "path">> >>)>>
    /\ InError(Msg("Import of ... is not allowed", <<>>, <<"os", "path">>))

\* the blocked names the source refers to, wherever in its tree
BlockedNameUses(source) ==
    { n.id : n \in {m \in Nodes(Module(source)) : m.kind = "Name" /\ m.id \in BLOCKED_NAMES} }

\* C3 as stated: when a blocked name occurs anywhere in the syntax tree, the validator
\* reports it and execute rejects the code without running it
BlockedNameAlwaysReported ==
    ( /\ pc = "returned"
      /\ ~ParseFails(code) /\ ~ParseOverflows(code)
      /\ BlockedNameUses(code) # {} )
    => /\ \A id \in BlockedNameUses(code) : InError(Msg("Use of ... is not allowed", id, <<>>))
       /\ ~result.success
       /\ NothingRun

\* C3 as amended: execute rejects the code without running it in every case, and the
\* validator reports each blocked name whenever its walk over the tree ends
BlockedNameRejected ==
    (pc # "idle" /\ BlockedNameUses(code) # {})
    => /\ NothingRun
       /\ pc = "returned" => ~result.success /\ result.error # <<>>
       /\ (pc = "returned" /\ Walked(code))
          => \A id \in BlockedNameUses(code) : InError(Msg("Use of ... is not allowed", id, <<>>))

BlockedNameWitness ==
    /\ pc = "returned"
    /\ code = <<Expr(Call(Name(Id("print")), <<Attribute(Name(Id("eval")), Id("y"))>>))>>
    /\ InError(Msg("Use of ... is not allowed", Id("eval"), <<>>))

\* a name that starts and ends with two underscores
DunderShaped(attr) ==
    /\ Len(attr) >= 2
    /\ SubSeq(attr, 1, 2) = <<"_", "_">>
    /\ SubSeq(attr, Len(attr) - 1, Len(attr)) = <<"_", "_">>

\* the attribute names to be rejected, from every link of every chain
DunderAccesses(source) ==
    { n.id : n \in {m \in Nodes(Module(source)) :
                      /\ m.kind = "Attribute"
                      /\ DunderShaped(m.id)
                      /\ m.id \notin {Dunder("init"), Dunder("str"), Dunder("repr")}} }

\* C4: code with a dunder attribute access, at any link of a chain, is rejected before
\* compilation: it is never compiled or run, its result is a failure, and the
\* validator's report names the attribute; __init__, __str__ and __repr__ are not
\* reported
DunderRejectedBeforeCompile ==
    /\ (pc # "idle" /\ DunderAccesses(code) # {})
       => /\ NothingRun
          /\ pc = "returned" => ~result.success /\ result.error # <<>>
          /\ (pc = "returned" /\ Walked(code))
             => \A a \in DunderAccesses(code) : InError(Msg("Access to ... is not allowed", a, <<>>))
    /\ \A i \in 1..Len(errors) :
          errors[i].rule = "Access to ... is not allowed"
          => errors[i].id \notin {Dunder("init"), Dunder("str"), Dunder("repr")}

DunderChainWitness ==
    /\ pc = "returned"
    /\ code = <<Expr(Attribute(Attribute(Name(Id("x")), Dunder("class")), Id("y")))>>
    /\ InError(Msg("Access to ... is not allowed", Dunder("class"), <<>>))

\* C5: a returned result has success = true exactly when its error is empty
SuccessIffNoError ==
    pc = "returned" => (result.success <=> result.error = <<>>)

SuccessWitness ==
    /\ pc = "returned"
    /\ result.success
    /\ result.images # <<>>

\* C6: execute never lets an exception reach its caller
NoExceptionEscapes == pc # "raised"

\* C7: when execute has returned, no figure is open
NoFigureLeftOpen == pc = "returned" => figs = <<>>

\* the figures the statements of a program create
FigsCreatedBy(program) == Cardinality({i \in 1..Len(program) : program[i] \in {FigStmt, BadFigStmt}})

\* C8: a successful call returns one image for each figure its code created, and none
\* of a figure that an earlier call created
ImagesAreThisCallsFigures ==
    (pc = "returned" /\ result.success)
    => /\ Len(result.images) = FigsCreatedBy(code)
       /\ \A i \in 1..Len(result.images) : result.images[i].own

\* C9: a call in which the timeout elapsed returns a failure whose error is the
\* timeout message naming the configured seconds, with no output, table or image
TimeoutReported ==
    (pc = "returned" /\ timed_out)
    => /\ ~result.success
       /\ result.output = <<>>
       /\ result.dataframe = NoTable
       /\ result.images = <<>>
       /\ Len(result.error) = 1
       /\ result.error[1].rule = "Execution timeout: Code took longer than ... seconds"
       /\ result.error[1].n = DEFAULT_TIMEOUT

TimeoutWitness ==
    /\ pc = "returned"
    /\ timed_out
    /\ stdout_capture # <<>>
    /\ figs # <<>>

\* C10: a call that has submitted the code always comes back to its caller
ExecuteEventuallyReturns == (pc = "wait") ~> (pc \in {"returned", "raised"})

\* the names the first n statements of a program bind at top level
RECURSIVE Targets(_, _)
Targets(program, n) ==
    IF n = 0 THEN {}
    ELSE Targets(program, n - 1)
         \cup (CASE program[n].kind = "Assign" /\ program[n].kids[1].kind = "Name"
                      -> {program[n].kids[1].id}
                  [] program[n].kind = "FunctionDef" -> {program[n].id}
                  [] program[n].kind = "Import"
                      -> {Id(TopLevel(program[n].kids[i].mod)) : i \in 1..Len(program[n].kids)}
                  [] program[n].kind = "ImportFrom" -> {Id(program[n].kids[1].mod[1])}
                  [] OTHER -> {})

\* the attributes this call itself has set on the module objects
OwnAttrs == {h.attr : h \in {g \in handles : g.by = calls}}

\* C11: while the code of a call runs, its namespace holds only what
\* _create_safe_globals put there and what the call's own statements bound, and the
\* statement about to run does what it would do had no earlier call run
NothingFromEarlierCalls ==
    (future = "running" /\ wi <= Len(code))
    => /\ DOMAIN safe_dict \subseteq DOMAIN create_safe_globals(file_path) \cup Targets(code, wi - 1)
       /\ \A k \in DOMAIN create_safe_globals(file_path) \ Targets(code, wi - 1) :
             safe_dict[k] = create_safe_globals(file_path)[k]
       /\ Exec(code[wi], safe_dict, Attrs(handles)) = Exec(code[wi], safe_dict, OwnAttrs)

\* the rows of the table the preview is taken from
SourceRows(ns) ==
    IF Id("df") \in DOMAIN ns /\ ns[Id("df")].type = "DataFrame" THEN ns[Id("df")].rows
    ELSE ns[Id("result")].rows

\* string, number, boolean or null
JsonScalars == {"str", "int", "float", "bool", "NoneType"}

\* C12: after a successful run that left a table in df, the preview has min(5, rows)
\* records, a record that needed no conversion is the row at its position, and every
\* value is a string, a number, a boolean or null
PreviewIsJsonScalars ==
    ( /\ pc = "returned" /\ result.success
      /\ Id("df") \in DOMAIN safe_dict /\ safe_dict[Id("df")].type = "DataFrame" )
    => LET rows == safe_dict[Id("df")].rows
           recs == result.dataframe.records
       IN  /\ ~result.dataframe.none
           /\ Len(recs) = (IF Len(rows) < 5 THEN Len(rows) ELSE 5)
           /\ \A i \in 1..Len(recs) :
                 /\ recs[i].type \in JsonScalars
                 /\ (rows[i].type \in JsonScalars /\ rows[i].v \notin NonFinite) => recs[i] = rows[i]

\* a floating-point cell, native or numpy's
FloatCells == {"float", "np.float64", "np.float32"}

OutcomeOwed(name) ==
    CASE name = <<"pandas">> -> "pd"
      [] name = <<"numpy">> -> "np"
      [] name = <<"seaborn">> -> "sns"
      [] name # <<>> /\ name[1] = "matplotlib" -> "matplotlib"
      [] name # <<>> /\ name[1] # "matplotlib" /\ name[1] \in BLOCKED_MODULES
            -> "not allowed for security reasons"
      [] OTHER -> "Cannot import"

\* the module name a program of one import asks for
Asked(stmt) ==
    IF stmt.kind = "Import" THEN stmt.kids[1].mod
    ELSE IF stmt.kind = "ImportFrom" THEN stmt.mod
    ELSE stmt.kids[1].kids[2].mod

IsImportProgram(program) ==
    /\ Len(program) = 1
    /\ \/ program[1].kind = "Import"
       \/ program[1].kind = "ImportFrom" /\ Len(program[1].mod) < 2
       \/ /\ program[1].kind = "Expr" /\ program[1].kids[1].kind = "Call"
          /\ program[1].kids[1].kids[1] = Name(Dunder("import"))

\* C14: the import interceptor gives every module name one of three outcomes: a
\* pre-loaded handle for the four libraries and for names under matplotlib, the
\* 'not allowed' ImportError for a blocked top-level module, the 'Cannot import'
\* ImportError for the rest; code that is one import ends without an exception in
\* the first case and with that ImportError in the others
ImportOutcomes ==
    /\ \A n \in ImportNames :
          /\ safe_import(n) = OutcomeOwed(n)
          /\ safe_import(n) \in PreloadedHandles
                \cup {"not allowed for security reasons", "Cannot import"}
    /\ (future = "finished" /\ IsImportProgram(code))
       => LET owed == OutcomeOwed(Asked(code[1]))
          IN  future_exc = IF owed \in PreloadedHandles THEN NoExc ELSE Exc("Exception", owed)

ImportRefusedWitness ==
    /\ pc = "returned"
    /\ code = <<ImportCall(<<"os", "path">>)>>
    /\ future_exc = Exc("Exception", "not allowed for security reasons")
    /\ result.error = <<Msg("Runtime error: ...", Id("not allowed for security reasons"), <<>>)>>

\* the violations in a tree, each occurrence counted: a blocked alias of an import
\* statement, a from-import of a blocked module, a reference to a blocked name, an
\* access to a dunder attribute outside __init__, __str__ and __repr__
RECURSIVE Occurrences(_)
RECURSIVE OccurrencesIn(_, _)
OccurrencesIn(kids, i) ==
    IF i > Len(kids) THEN 0 ELSE Occurrences(kids[i]) + OccurrencesIn(kids, i + 1)

Occurrences(node) ==
    (CASE node.kind = "Import" ->
            Cardinality({i \in 1..Len(node.kids) :
                           node.kids[i].mod # <<>> /\ node.kids[i].mod[1] \in BLOCKED_MODULES})
       [] node.kind = "ImportFrom" ->
            IF node.mod # <<>> /\ node.mod[1] \in BLOCKED_MODULES THEN 1 ELSE 0
       [] node.kind = "Name" -> IF node.id \in BLOCKED_NAMES THEN 1 ELSE 0
       [] node.kind = "Attribute" ->
            IF DunderShaped(node.id) /\ node.id \notin {Dunder("init"), Dunder("str"), Dunder("repr")}
            THEN 1 ELSE 0
       [] OTHER -> 0)
    + OccurrencesIn(node.kids, 1)

\* C15: the error of a security rejection is the heading followed by one line for
\* each violation occurring in the tree, as many lines as occurrences, and each
\* offending import, name and attribute is among them
EveryViolationReported ==
    (pc = "returned" /\ InError(Msg("Security validation failed:", <<>>, <<>>)))
    => /\ result.error[1] = Msg("Security validation failed:", <<>>, <<>>)
       /\ Len(result.error) - 1 = Occurrences(Module(code))
       /\ \A m \in OffendingImports(code) : InError(m)
       /\ \A id \in BlockedNameUses(code) : InError(Msg("Use of ... is not allowed", id, <<>>))
       /\ \A a \in DunderAccesses(code) : InError(Msg("Access to ... is not allowed", a, <<>>))

SeveralViolationsWitness ==
    /\ pc = "returned"
    /\ Len(result.error) = 4
    /\ InError(Msg("Use of ... is not allowed", Id("eval"), <<>>))
    /\ InError(Msg("Access to ... is not allowed", Dunder("class"), <<>>))

\* the text of a security rejection: the heading or a line of the validator
SecurityText(m) ==
    m.rule \in { "Security validation failed:", "Import of ... is not allowed",
                 "Import from ... is not allowed", "Use of ... is not allowed",
                 "Access to ... is not allowed" }

NoSecurityText == \A i \in 1..Len(result.error) : ~SecurityText(result.error[i])

\* what the deny-list finds in the fragments of a source that do parse
Denied(source) ==
    OffendingImports(source) # {} \/ BlockedNameUses(source) # {} \/ DunderAccesses(source) # {}

\* C16 as stated: a source on which ast.parse fails returns an error that starts with
\* 'Syntax error:' and has no security text
ParseFailureIsSyntaxError ==
    (pc = "returned" /\ (ParseFails(code) \/ ParseOverflows(code)))
    => /\ result.error # <<>>
       /\ result.error[1].rule = "Syntax error: ..."
       /\ NoSecurityText

\* C16 as amended: a source on which ast.parse raises SyntaxError returns the syntax
\* error alone, and one on which it raises another exception the sandbox error alone;
\* in both cases the validator has not walked anything and nothing was run
ParseFailureShortCircuits ==
    /\ (pc = "returned" /\ ParseFails(code))
       => /\ result.error = <<Msg("Syntax error: ...", <<>>, <<>>)>>
          /\ errors = <<>>
          /\ NothingRun
    /\ (pc = "returned" /\ ParseOverflows(code))
       => /\ Len(result.error) = 1
          /\ result.error[1].rule = "Sandbox error: ..."
          /\ errors = <<>>
          /\ NothingRun

SyntaxErrorHidesViolationWitness ==
    /\ pc = "returned"
    /\ ParseFails(code)
    /\ Denied(code)
    /\ result.error = <<Msg("Syntax error: ...", <<>>, <<>>)>>

\* C17: when the code ended in an exception (and not in a timeout), execute returns a
\* failure whose error holds the exception's message, followed by what the code wrote
\* to standard error if it wrote anything
RuntimeErrorCarriesMessage ==
    (pc \in {"returned", "raised"} /\ future_exc # NoExc /\ ~timed_out)
    => /\ pc = "returned"
       /\ ~result.success
       /\ result.error # <<>>
       /\ result.error[1].id = Id(future_exc.text)
       /\ stderr_capture # <<>>
          => Len(result.error) = 2 /\ result.error[2] = Msg("stderr", stderr_capture, <<>>)

\* the code of this call ran to its end: the worker finished without an exception
\* and before the timeout
RanToCompletion == future = "finished" /\ future_exc = NoExc /\ ~timed_out

\* C18: when the code ran to completion and the table conversion or the encoding of a
\* figure then raised, the result is a failure reported as a runtime error, and its
\* output is all the text the code printed
ExtractionFailureKeepsOutput ==
    (pc = "returned" /\ RanToCompletion /\ ~result.success)
    => /\ result.error # <<>>
       /\ result.error[1].rule = "Runtime error: ..."
       /\ result.output = stdout_capture

ConversionFailureWitness ==
    /\ pc = "returned"
    /\ RanToCompletion
    /\ ConversionThrows(safe_dict)
    /\ result.error = <<Msg("Runtime error: ...", Id("object is not callable"), <<>>)>>
    /\ result.output = <<"hello">>

\* C20: a returned result that is a failure has no table and no image
FailureHasNoTableOrImages ==
    (pc = "returned" /\ ~result.success) => result.dataframe = NoTable /\ result.images = <<>>

\* the text the statements of a program print to standard output, in order
RECURSIVE Printed(_, _)
Printed(program, n) ==
    IF n = 0 THEN <<>>
    ELSE Printed(program, n - 1) \o Exec(program[n], create_safe_globals("data.csv"), {}).out

\* C19: of two calls running at the same time, each returns as output exactly the
\* text its own code printed, and once both have returned sys.stdout and sys.stderr
\* are the streams that were in place before
ConcurrentCallsIsolated ==
    /\ \A t \in Callers :
          cpc[t] = "returned" => cresult[t] = Pieces(t, Printed(ccode[t], Len(ccode[t])))
    /\ (\A t \in Callers : cpc[t] = "returned")
       => sys_stdout = "original" /\ sys_stderr = "original"

\* the name is bound to a table
IsTable(ns, name) == Id(name) \in DOMAIN ns /\ ns[Id(name)].type = "DataFrame"

\* C21: the preview of a successful run comes from df when df is a table, whatever
\* result is; from result when df is unbound or no table and result is a table; and
\* is None when neither is a table, which by itself does not make the run fail
DiscoveryInPriorityOrder ==
    /\ (pc = "returned" /\ result.success)
       => result.dataframe =
             IF IsTable(safe_dict, "df")
             THEN [none |-> FALSE, records |-> make_json_safe_records(safe_dict[Id("df")].rows)]
             ELSE IF IsTable(safe_dict, "result")
             THEN [none |-> FALSE, records |-> make_json_safe_records(safe_dict[Id("result")].rows)]
             ELSE NoTable
    /\ ( /\ pc = "returned" /\ RanToCompletion
         /\ ~IsTable(safe_dict, "df") /\ ~IsTable(safe_dict, "result")
         /\ \A i \in 1..Len(figs) : ~figs[i].bad )
       => result.success /\ result.dataframe = NoTable

BothNamesWitness ==
    /\ pc = "returned"
    /\ result.success
    /\ IsTable(safe_dict, "df")
    /\ IsTable(safe_dict, "result")
    /\ safe_dict[Id("df")].rows # safe_dict[Id("result")].rows
    /\ Len(result.dataframe.records) = 5

\* the call is turned away at lines 263-277: the source does not parse, or the
\* validator's walk over the tree ends with a report that is not empty
Rejected(source) ==
    \/ ParseFails(source)
    \/ Walked(source) /\ visit(Parse(source)) # <<>>

\* the figures pyplot holds, as the process sees them
OpenFigures(fs) == [i \in 1..Len(fs) |-> fs[i].bad]

\* C22: no step of a call rejected at validation, from its entry to its return,
\* changes the pandas display options, the figures pyplot holds, sys.stdout or
\* sys.stderr: every step leaves them as they were, or is not a step of such a call
RejectedCallHasNoSideEffect ==
    [][ \/ /\ display' = display
           /\ OpenFigures(figs') = OpenFigures(figs)
           /\ sys_stdout' = sys_stdout
           /\ sys_stderr' = sys_stderr
           /\ handles' = handles
        \/ pc' = "idle"
        \/ ~Rejected(code') ]_vars

\* a rejected call has returned after an earlier call set the display options and
\* left a figure open
RejectedAfterEffectsWitness ==
    /\ pc = "returned"
    /\ calls = 2
    /\ Rejected(code)
    /\ ~ParseFails(code)
    /\ result.error # <<>>
    /\ figs # <<>>
    /\ display = "wide"

\* C23: in one call compile is called at most once and the code is handed to the
\* executor at most once, at every point of the call and whatever its outcome
\* (success, timeout, runtime error, extraction error); no statement of the code is
\* started beyond the code's length
CodeStartedAtMostOnce ==
    /\ hist.compiled <= 1
    /\ hist.started <= hist.compiled
    /\ byte_code => hist.compiled = 1
    /\ future # "none" => hist.started = 1
    /\ ran <= Len(code)

\* the code was started once, the wait timed out, and the call has returned
StartedOnceThenTimedOutWitness ==
    /\ pc = "returned"
    /\ timed_out
    /\ ~result.success
    /\ hist = [compiled |-> 1, started |-> 1]
    /\ ran >= 1

\* the dotted names a dynamic import can ask for under module X
DynamicNames(X) == { <<X>>, <<X, "path">> }

\* the names the namespace binds to module objects
ModuleNames(ns) == { k \in DOMAIN ns : ns[k].type = "module" }

\* every import statement naming a blocked module is reported by the validator; a
\* dynamic import of one passes the validator and is refused by the interceptor
BlockedSpellingsRefused ==
    \A X \in BLOCKED_MODULES :
       /\ \A s \in Spellings(X) : visit(Parse(<<s>>)) # <<>>
       /\ \A n \in DynamicNames(X) :
             /\ visit(Parse(<<ImportCall(n)>>)) = <<>>
             /\ safe_import(n) = "not allowed for security reasons"

\* C24: every import statement that names a blocked module (import X, import X.Y,
\* import X as Z, from X import Y, from X.Y import Z) is reported by the validator and
\* the call returns a security failure with nothing run; __import__ called with a
\* blocked name passes the validator, is refused by the interceptor, and the call,
\* unless its wait timed out first, returns the runtime error of that ImportError,
\* which the code does not catch; and the namespace never binds a
\* module under a blocked module's name, or under the alias of a refused import
BlockedImportsRejected ==
    /\ BlockedSpellingsRefused
    /\ (pc = "returned" /\ code \in BlockedImportPrograms)
       => /\ ~result.success
          /\ result.error # <<>>
          /\ result.error[1] = Msg("Security validation failed:", <<>>, <<>>)
          /\ NothingRun
    /\ ( /\ pc = "returned"
         /\ ~timed_out
         /\ \E X \in BLOCKED_MODULES : \E n \in DynamicNames(X) : code = <<ImportCall(n)>> )
       => /\ ~result.success
          /\ result.error
               = <<Msg("Runtime error: ...", Id("not allowed for security reasons"), <<>>)>>
    /\ \A X \in BLOCKED_MODULES : Id(X) \notin DOMAIN safe_dict
    /\ ModuleNames(safe_dict) \subseteq AllowedModules \cup {Id("z")}
    /\ Id("z") \in DOMAIN safe_dict => code = <<ImportAs(<<"pandas">>, "z")>>

\* __import__('os') was refused at run time, and the call has returned
DynamicImportRefusedWitness ==
    /\ pc = "returned"
    /\ code = <<ImportCall(<<"os">>)>>
    /\ ~timed_out
    /\ ran = 1
    /\ errors = <<>>
    /\ ~result.success
    /\ ModuleNames(safe_dict) = AllowedModules

\* in a namespace as it is built, with or without a file path, no blocked name is
\* bound, and a call of one raises NameError; the statement does not depend on the
\* state, so it is evaluated before the first call only
BlockedNamesUnbound ==
    \A b \in BLOCKED_NAMES : \A f \in FilePaths :
       /\ b \notin DOMAIN create_safe_globals(f)
       /\ Exec(Expr(Call(Name(b), <<Constant("1")>>)), create_safe_globals(f), {})
             = Raises("Exception", "NameError", create_safe_globals(f))

\* C25: no key of safe_builtins is a blocked name; in a namespace as it is built,
\* with or without a file path, a call of a blocked name finds the name neither
\* among the globals nor among the builtins and raises NameError; and no namespace a
\* call runs in binds a blocked name
BuiltinsExcludeBlockedNames ==
    /\ SafeBuiltins \cap BLOCKED_NAMES = {}
    /\ calls = 0 => BlockedNamesUnbound
    /\ safe_dict # <<>>
       => /\ Dunder("builtins") \in DOMAIN safe_dict
          /\ DOMAIN safe_dict \cap BLOCKED_NAMES = {}

\* a second call has run its code to the end in a namespace of its own
SecondNamespaceWitness ==
    /\ pc = "returned"
    /\ calls = 2
    /\ result.success
    /\ ran = Len(code)
    /\ ran >= 1
    /\ Dunder("builtins") \in DOMAIN safe_dict

\* what the statements of a program from the i-th on write to standard output, one
\* after the other, started in namespace ns with the module attributes attrs
RECURSIVE StdoutOf(_, _, _, _)
StdoutOf(program, i, ns, attrs) ==
    IF i > Len(program) THEN <<>>
    ELSE LET eff == Exec(program[i], ns, attrs)
         IN  eff.out \o StdoutOf(program, i + 1, eff.ns, attrs \cup eff.set)

\* C26: output is set only once the worker has finished without an exception and
\* the wait has not timed out; a call that timed out or whose code raised returns
\* the empty output whatever its code printed before; a successful call returns as
\* output what its statements printed, in their order, and nothing of what was
\* written to standard error
OutputOnlyAfterCompletion ==
    /\ result.output # <<>> => RanToCompletion /\ wi > Len(code)
    /\ (pc = "returned" /\ (timed_out \/ future_exc # NoExc)) => result.output = <<>>
    /\ (pc = "returned" /\ result.success)
       => /\ result.output = stdout_capture
          /\ result.output
               = StdoutOf(code, 1, create_safe_globals(file_path),
                          Attrs({h \in handles : h.by < calls}))
          /\ \A i \in 1..Len(result.output) :
                \A j \in 1..Len(stderr_capture) : result.output[i] # stderr_capture[j]

\* the code printed, then raised, and the call returned no output
PrintedThenRaisedWitness ==
    /\ pc = "returned"
    /\ ~timed_out
    /\ future_exc # NoExc
    /\ stdout_capture # <<>>
    /\ stderr_capture # <<>>
    /\ result.output = <<>>

\* C27: whenever the MCP tool serialises the result of an execute call, json.dumps
\* returns a JSON text
SerialisingNeverFails ==
    pc \in {"replied", "dumps_raised"} => pc = "replied" /\ dumps(result) = "json"

AnalyzeOutcomesUnlessRaised ==
    /\ iteration <= max_iterations
    /\ ahist.executions <= max_iterations * MaxToolCalls
    /\ ahist.first # NoAnalysis => apc = "done" /\ analysis = ahist.first /\ ahist.later = 0
    /\ (apc = "done" /\ analysis.success /\ ahist.first = NoAnalysis)
       => analysis.dataframe = "None" /\ analysis.images = <<>>
    /\ apc = "done"
       => /\ analysis = MaximumIterations
             <=> (ahist.tooled = max_iterations /\ ahist.first = NoAnalysis /\ ~ahist.raised)
          /\ analysis = OrchestratorError <=> ahist.raised

ParsedOutputs == { i \in 1..Len(new_items) : new_items[i].kind = "tool output" }

\* C29: when the run has tool outputs, the dataframe and the images analyze returns
\* are those of the last output that parsed, and a returned dataframe and returned
\* images never come from two different executions
ProductsFromOneExecution ==
    (xpc = "done" /\ ParsedOutputs # {})
    => LET last == CHOOSE i \in ParsedOutputs : \A j \in ParsedOutputs : j <= i
       IN  /\ extracted.dataframe = IF new_items[last].dataframe
                                    THEN [from |-> last, empty |-> FALSE]
                                    ELSE NoProduct
           /\ extracted.images = [from |-> last, empty |-> ~new_items[last].images]
           /\ (~extracted.dataframe.empty /\ ~extracted.images.empty)
              => extracted.dataframe.from = extracted.images.from

====
